---------------------------- MODULE Spec2Model ----------------------------
(***************************************************************************)
(* Model of the bodevops-features library: the utilities of                *)
(* gg-sheet/utils.ts and gg-drive/utils.ts, the configuration classes, the *)
(* folder resolver and the uploads of gg-drive/google-drive.ts, and the    *)
(* operations of gg-sheet/google-sheet.ts.                                 *)
(*                                                                         *)
(* Strings are sequences of character codes (UTF-16 code units), so that   *)
(* toUpperCase, trim, split and the regular expressions are computed and   *)
(* not assumed.  Remote identifiers are integers: ROOT stands for 'root',  *)
(* the n-th item the remote creates has identifier n.                      *)
(***************************************************************************)
EXTENDS Integers, Sequences, FiniteSets, TLC

(***************************************************************************)
(* Bounds of the model.                                                    *)
(***************************************************************************)
MaxColumnIndex == 1000
MaxNameLen == 3
MaxDataRow == 6
MaxRowOffset == 3
MaxPathLen == 3
MaxRepeats == 1
MaxRacePathLen == 1
MaxUrlPieces == 3
MaxGridRows == 3
MaxExportRows == 2
MaxParsePathLen == 5

(***************************************************************************)
(* Characters.                                                             *)
(***************************************************************************)
\* UTF-16 code units of the characters the model uses.
Code ==
  [A |-> 65, B |-> 66, Z |-> 90, a |-> 97, b |-> 98, z |-> 122,
   one |-> 49, space |-> 32, tab |-> 9, slash |-> 47,
   zero |-> 48, nine |-> 57, dash |-> 45, underscore |-> 95, question |-> 63,
   d |-> 100, e |-> 101, h |-> 104, p |-> 112, r |-> 114, s |-> 115,
   t |-> 116]

\* 'A'.charCodeAt(0)
CharCodeA == Code.A

\* Characters String.prototype.trim removes (those of the input alphabet).
WhiteSpace == {Code.space, Code.tab}

\* Input alphabet of column names: upper and lower case letters, a digit,
\* a blank and a tab.
NameChars ==
  {Code.A, Code.B, Code.Z, Code.a, Code.z, Code.one, Code.space, Code.tab}

RECURSIVE SeqsUpTo(_, _)
SeqsUpTo(S, n) ==
  IF n = 0 THEN {<<>>}
  ELSE LET shorter == SeqsUpTo(S, n - 1)
       IN  shorter \cup {Append(s, c) : s \in {t \in shorter : Len(t) = n - 1}, c \in S}

NameInputs == SeqsUpTo(NameChars, MaxNameLen)

(***************************************************************************)
(* gg-sheet/utils.ts                                                       *)
(***************************************************************************)

\* String.prototype.toUpperCase on one code unit of the alphabet.
UpperChar(c) ==
  IF c >= Code.a /\ c <= Code.z THEN c - (Code.a - Code.A) ELSE c

toUpperCase(s) == [k \in 1..Len(s) |-> UpperChar(s[k])]

RECURSIVE trimStart(_)
trimStart(s) ==
  IF Len(s) > 0 /\ s[1] \in WhiteSpace THEN trimStart(Tail(s)) ELSE s

RECURSIVE trimEnd(_)
trimEnd(s) ==
  IF Len(s) > 0 /\ s[Len(s)] \in WhiteSpace
  THEN trimEnd(SubSeq(s, 1, Len(s) - 1))
  ELSE s

\* String.prototype.trim
trim(s) == trimEnd(trimStart(s))

\* Plain base 26 (digits 0..25): the loop without the "- 1" carry.
RECURSIVE IndexToNameLoopNoCarry(_, _)
IndexToNameLoopNoCarry(index, columnName) ==
  LET name == <<(index % 26) + CharCodeA>> \o columnName
  IN  IF index \div 26 > 0
      THEN IndexToNameLoopNoCarry(index \div 26, name)
      ELSE name

\* The loop appending each letter instead of prepending it.
RECURSIVE IndexToNameLoopAppend(_, _)
IndexToNameLoopAppend(index, columnName) ==
  IF index >= 0
  THEN IndexToNameLoopAppend((index \div 26) - 1,
                             columnName \o <<(index % 26) + CharCodeA>>)
  ELSE columnName

\* The while loop of convertIndexToColumnName, from (index, columnName).
RECURSIVE IndexToNameLoop(_, _)
IndexToNameLoop(index, columnName) ==
  IF index >= 0
  THEN IndexToNameLoop((index \div 26) - 1,
                       <<(index % 26) + CharCodeA>> \o columnName)
  ELSE columnName

convertIndexToColumnName(columnIndex) == IndexToNameLoop(columnIndex, <<>>)

\* /^[A-Z]+$/.test(s)
IsColumnLetters(s) ==
  /\ Len(s) >= 1
  /\ \A k \in 1..Len(s) : s[k] >= Code.A /\ s[k] <= Code.Z

\* The for loop of convertColumnNameToIndex, from position i with result.
RECURSIVE NameToIndexLoop(_, _, _)
NameToIndexLoop(upperColumnName, i, result) ==
  IF i <= Len(upperColumnName)
  THEN NameToIndexLoop(upperColumnName, i + 1,
                       result * 26 + ((upperColumnName[i] - CharCodeA) + 1))
  ELSE result

\* A call either returns a value or throws an Error.
Returned(v) == [threw |-> FALSE, value |-> v]
ThrewInvalidColumnName == [threw |-> TRUE, value |-> 0]

\* convertColumnNameToIndex without the trim().
convertColumnNameToIndexNoTrim(columnName) ==
  LET upperColumnName == toUpperCase(columnName)
  IN  IF ~IsColumnLetters(upperColumnName)
      THEN ThrewInvalidColumnName
      ELSE Returned(NameToIndexLoop(upperColumnName, 1, 0) - 1)

convertColumnNameToIndex(columnName) ==
  LET upperColumnName == trim(toUpperCase(columnName))
  IN  IF ~IsColumnLetters(upperColumnName)
      THEN ThrewInvalidColumnName
      ELSE Returned(NameToIndexLoop(upperColumnName, 1, 0) - 1)

\* An omitted rowOffset (undefined) takes the default 0.
Undefined == -1

\* calculateActualRow counting the header row only (+ 1 instead of + 2).
calculateActualRowNoHeader(dataRowIndex, rowOffset) ==
  LET offset == IF rowOffset = Undefined THEN 0 ELSE rowOffset
  IN  dataRowIndex + 1 + offset

calculateActualRow(dataRowIndex, rowOffset) ==
  LET offset == IF rowOffset = Undefined THEN 0 ELSE rowOffset
  IN  dataRowIndex + 2 + offset

\* The literal part of SPREADSHEET_ID_PATTERN: "/spreadsheets/d/".
PatternLiteral ==
  <<Code.slash, Code.s, Code.p, Code.r, Code.e, Code.a, Code.d, Code.s,
    Code.h, Code.e, Code.e, Code.t, Code.s, Code.slash, Code.d, Code.slash>>

\* The character class of the pattern without '-' and '_': [a-zA-Z0-9].
InClassAlnum(c) ==
  \/ c >= Code.a /\ c <= Code.z
  \/ c >= Code.A /\ c <= Code.Z
  \/ c >= Code.zero /\ c <= Code.nine

\* The character class of the pattern: [a-zA-Z0-9-_].
InClass(c) ==
  \/ c >= Code.a /\ c <= Code.z
  \/ c >= Code.A /\ c <= Code.Z
  \/ c >= Code.zero /\ c <= Code.nine
  \/ c = Code.dash
  \/ c = Code.underscore

\* The greedy group ([a-zA-Z0-9-_]+) tried at position k: the characters
\* of the class it consumes.
RECURSIVE GreedyClass(_, _)
GreedyClass(s, k) ==
  IF k <= Len(s) /\ InClass(s[k])
  THEN <<s[k]>> \o GreedyClass(s, k + 1)
  ELSE <<>>

LiteralAt(s, i) ==
  /\ i + Len(PatternLiteral) - 1 <= Len(s)
  /\ \A k \in 1..Len(PatternLiteral) : s[i + k - 1] = PatternLiteral[k]

\* The pattern tried at the start positions i, i + 1, ... in turn; the
\* first position where the literal and a group of at least one character
\* match gives the result.
RECURSIVE PatternExec(_, _)
PatternExec(s, i) ==
  IF i > Len(s) THEN [matched |-> FALSE, group |-> <<>>]
  ELSE IF LiteralAt(s, i) /\ GreedyClass(s, i + Len(PatternLiteral)) # <<>>
       THEN [matched |-> TRUE,
             group |-> GreedyClass(s, i + Len(PatternLiteral))]
       ELSE PatternExec(s, i + 1)

\* null, and a string result.
Null == [isNull |-> TRUE, value |-> <<>>]
Str(s) == [isNull |-> FALSE, value |-> s]

getSheetIdFromUrl(sheetUrl) ==
  LET match == PatternExec(sheetUrl, 1)
  IN  IF match.matched /\ match.group # <<>>
      THEN Str(match.group)
      ELSE Null

\* SPREADSHEET_ID_PATTERN.test(sheetUrl)
isValidSheetUrl(sheetUrl) == PatternExec(sheetUrl, 1).matched

\* keys.reduce((acc, key, index) => { acc[key] = row[index] || ''; ... }, {}):
\* the object as a function of its keys; of two equal keys the later one
\* gives the value.
RowObject(keys, row) ==
  [key \in {keys[j] : j \in 1..Len(keys)} |->
     LET last == CHOOSE j \in 1..Len(keys) :
                   keys[j] = key /\ \A m \in (j + 1)..Len(keys) : keys[m] # key
     IN  IF last <= Len(row) THEN row[last] ELSE <<>>]

\* The raw values convertValueSheet is applied to: up to MaxGridRows rows
\* of up to two cells, a row without cells and a blank cell included.
ValuesInputs ==
  SeqsUpTo({<<>>, <<<<Code.a>>>>, <<<<Code.a>>, <<Code.b>>>>,
            <<<<Code.b>>, <<Code.a>>>>, <<<<>>, <<Code.a>>>>,
            <<<<Code.a>>, <<Code.a>>>>}, MaxGridRows)

\* convertValueSheet taking the data rows from the second row of values
\* whatever rowOffset is.
convertValueSheetFromSecondRow(values, rowOffset) ==
  LET offset == IF rowOffset = Undefined THEN 0 ELSE rowOffset
  IN  IF Len(values) = 0 THEN Null
      ELSE IF offset + 1 > Len(values) \/ Len(values[offset + 1]) = 0 THEN Null
      ELSE Str([i \in 1..(Len(values) - 1) |->
                  RowObject(values[offset + 1], values[1 + i])])

\* values.slice(rowOffset + 1).map(row => object of keys = values[rowOffset])
convertValueSheet(values, rowOffset) ==
  LET offset == IF rowOffset = Undefined THEN 0 ELSE rowOffset
  IN  IF Len(values) = 0 THEN Null
      ELSE IF offset + 1 > Len(values) \/ Len(values[offset + 1]) = 0 THEN Null
      ELSE Str([i \in 1..(Len(values) - offset - 1) |->
                  RowObject(values[offset + 1], values[offset + 1 + i])])

\* URLs of the model: up to MaxUrlPieces pieces, each the pattern's
\* literal, the literal without its leading '/', one letter, a run of
\* the other characters of the class, a '/' or a '?'.
UrlPieces ==
  {PatternLiteral,
   SubSeq(PatternLiteral, 2, Len(PatternLiteral)),
   <<Code.a>>,
   <<Code.underscore, Code.dash, Code.nine, Code.Z>>,
   <<Code.slash>>,
   <<Code.question>>}

RECURSIVE UrlsUpTo(_)
UrlsUpTo(n) ==
  IF n = 0 THEN {<<>>}
  ELSE LET shorter == UrlsUpTo(n - 1)
       IN  shorter \cup {u \o piece : u \in shorter, piece \in UrlPieces}

UrlInputs == UrlsUpTo(MaxUrlPieces)

(***************************************************************************)
(* gg-drive/config.ts and gg-sheet/config.ts                               *)
(*                                                                         *)
(* An optional value of the configuration is Absent (undefined) or Given   *)
(* of its value, a string or a list of strings.                            *)
(***************************************************************************)
Absent == [isAbsent |-> TRUE, value |-> ""]
Given(v) == [isAbsent |-> FALSE, value |-> v]

\* JavaScript truthiness of an optional string: undefined and '' are falsy.
Truthy(v) == ~v.isAbsent /\ v.value # ""

\* DEFAULT_DRIVE_SCOPES and DEFAULT_SHEET_SCOPES
DefaultScopes(class) ==
  IF class = "GoogleDriveConfig"
  THEN <<"https://www.googleapis.com/auth/drive",
         "https://www.googleapis.com/auth/drive.file">>
  ELSE <<"https://www.googleapis.com/auth/spreadsheets">>

\* The credentials argument when it is not given.
NoCredentials ==
  [isAbsent |-> TRUE, type |-> Absent, project_id |-> Absent,
   private_key |-> Absent, client_email |-> Absent]

\* The credentials arguments of the model: none, or a record whose fields
\* are each missing, empty or a string; the type is also the
\* service-account marker or another type.
CredentialsInputs ==
  LET FieldInputs == {Absent, Given(""), Given("x")}
      TypeInputs == {Absent, Given(""), Given("service_account"), Given("user")}
  IN  {NoCredentials} \cup
      {[isAbsent |-> FALSE, type |-> t, project_id |-> i,
        private_key |-> k, client_email |-> e] :
         t \in TypeInputs, i \in FieldInputs, k \in FieldInputs,
         e \in FieldInputs}

\* No object: the constructor threw.
NoConfig ==
  [keyFilePath |-> Absent, credentials |-> NoCredentials, scopes |-> <<>>]

ThrewConfig(error) == [threw |-> TRUE, error |-> error, config |-> NoConfig]

requiredFields == <<"type", "project_id", "private_key", "client_email">>

\* validateCredentials: the first required field that is missing or
\* empty, then the account type.
RECURSIVE ValidateLoop(_, _)
ValidateLoop(credentials, k) ==
  IF k > Len(requiredFields) THEN "none"
  ELSE IF ~Truthy(credentials[requiredFields[k]])
       THEN "Missing required credential field"
       ELSE ValidateLoop(credentials, k + 1)

validateCredentials(credentials) ==
  IF ValidateLoop(credentials, 1) # "none"
  THEN ValidateLoop(credentials, 1)
  ELSE IF credentials.type.value # "service_account"
       THEN "Invalid credential type"
       ELSE "none"

\* A constructor that also rejects the two forms given together.
NewConfigExactlyOne(class, keyFilePath, credentials, scopes) ==
  IF ~Truthy(keyFilePath) /\ credentials.isAbsent
  THEN ThrewConfig("Either keyFilePath or credentials must be provided")
  ELSE IF Truthy(keyFilePath) /\ ~credentials.isAbsent
  THEN ThrewConfig("Either keyFilePath or credentials must be provided")
  ELSE IF ~credentials.isAbsent /\ validateCredentials(credentials) # "none"
  THEN ThrewConfig(validateCredentials(credentials))
  ELSE [threw |-> FALSE, error |-> "none",
        config |-> [keyFilePath |-> keyFilePath,
                    credentials |-> credentials,
                    scopes |-> IF scopes.isAbsent THEN DefaultScopes(class)
                               ELSE scopes.value]]

\* A constructor that validates the credentials only when they are the
\* only form given.
NewConfigKeyFileFirst(class, keyFilePath, credentials, scopes) ==
  IF ~Truthy(keyFilePath) /\ credentials.isAbsent
  THEN ThrewConfig("Either keyFilePath or credentials must be provided")
  ELSE IF /\ ~Truthy(keyFilePath)
          /\ ~credentials.isAbsent
          /\ validateCredentials(credentials) # "none"
  THEN ThrewConfig(validateCredentials(credentials))
  ELSE [threw |-> FALSE, error |-> "none",
        config |-> [keyFilePath |-> keyFilePath,
                    credentials |-> credentials,
                    scopes |-> IF scopes.isAbsent THEN DefaultScopes(class)
                               ELSE scopes.value]]

\* new GoogleDriveConfig({...}) and new GoogleSheetConfig({...})
NewConfig(class, keyFilePath, credentials, scopes) ==
  IF ~Truthy(keyFilePath) /\ credentials.isAbsent
  THEN ThrewConfig("Either keyFilePath or credentials must be provided")
  ELSE IF ~credentials.isAbsent /\ validateCredentials(credentials) # "none"
  THEN ThrewConfig(validateCredentials(credentials))
  ELSE [threw |-> FALSE, error |-> "none",
        config |-> [keyFilePath |-> keyFilePath,
                    credentials |-> credentials,
                    scopes |-> IF scopes.isAbsent THEN DefaultScopes(class)
                               ELSE scopes.value]]

getAuthOptions(config) ==
  IF Truthy(config.keyFilePath)
  THEN [keyFile |-> config.keyFilePath, credentials |-> NoCredentials,
        scopes |-> config.scopes]
  ELSE [keyFile |-> Absent, credentials |-> config.credentials,
        scopes |-> config.scopes]

(***************************************************************************)
(* gg-drive/utils.ts                                                       *)
(***************************************************************************)

\* Input alphabet of folder paths: two letters, the separator and a blank.
PathChars == {Code.a, Code.b, Code.slash, Code.space}

PathInputs == SeqsUpTo(PathChars, MaxPathLen)
RacePathInputs == SeqsUpTo(PathChars, MaxRacePathLen)

\* String.prototype.split(sep) from position k, cur being the piece read so
\* far and acc the pieces completed.
RECURSIVE SplitLoop(_, _, _, _, _)
SplitLoop(s, sep, k, cur, acc) ==
  IF k > Len(s) THEN Append(acc, cur)
  ELSE IF s[k] = sep
       THEN SplitLoop(s, sep, k + 1, <<>>, Append(acc, cur))
       ELSE SplitLoop(s, sep, k + 1, Append(cur, s[k]), acc)

split(s, sep) == SplitLoop(s, sep, 1, <<>>, <<>>)

IsNonBlank(folder) == trim(folder) # <<>>

IsNonEmpty(folder) == folder # <<>>

\* The paths parseFolderPath is applied to on its own.
ParsePathInputs == SeqsUpTo(PathChars, MaxParsePathLen)

\* parseFolderPath trimming the segments it keeps.
parseFolderPathTrimmed(folderPath) ==
  IF folderPath = <<>> \/ folderPath = <<Code.slash>>
  THEN <<>>
  ELSE LET kept == SelectSeq(split(folderPath, Code.slash), IsNonBlank)
       IN  [k \in 1..Len(kept) |-> trim(kept[k])]

\* parseFolderPath dropping the empty pieces only, blank ones kept.
parseFolderPathKeepBlank(folderPath) ==
  IF folderPath = <<>> \/ folderPath = <<Code.slash>>
  THEN <<>>
  ELSE SelectSeq(split(folderPath, Code.slash), IsNonEmpty)

parseFolderPath(folderPath) ==
  IF folderPath = <<>> \/ folderPath = <<Code.slash>>
  THEN <<>>
  ELSE SelectSeq(split(folderPath, Code.slash), IsNonBlank)

(***************************************************************************)
(* The remote Drive.  files[n] is the item with identifier n; items are    *)
(* never removed, so identifiers are never reused.                         *)
(***************************************************************************)
ROOT == 0    \* 'root'
NoId == -1   \* an absent identifier (undefined / null)

FolderMime == "application/vnd.google-apps.folder"
OtherMime == "application/octet-stream"

Item(name, mimeType, parent, trashed) ==
  [name |-> name, mimeType |-> mimeType, parent |-> parent, trashed |-> trashed]

Folder(name, parent) == Item(name, FolderMime, parent, FALSE)

\* Remote contents a resolution may start from: an empty root, an existing
\* folder, an existing nested folder, a trashed folder, a file that is not
\* a folder, and two folders of one name.
InitialRemotes ==
  { <<>>,
    <<Folder(<<Code.a>>, ROOT)>>,
    <<Folder(<<Code.a>>, ROOT), Folder(<<Code.b>>, 1)>>,
    <<Item(<<Code.a>>, FolderMime, ROOT, TRUE)>>,
    <<Item(<<Code.a>>, OtherMime, ROOT, FALSE)>>,
    <<Folder(<<Code.a>>, ROOT), Folder(<<Code.a>>, ROOT)>> }

(***************************************************************************)
(* gg-drive/google-drive.ts                                                *)
(***************************************************************************)
Clients == {1, 2}

VARIABLES
  files,    \* the remote: sequence of items, files[n] has identifier n
  client,   \* per client: the call in progress and the previous call
  repeats   \* the caller: how often it has resolved a path once more

dvars == <<files, client, repeats>>

NoPrev ==
  [valid |-> FALSE, folderPath |-> <<>>, chain |-> <<>>, returned |-> FALSE,
   withIds |-> TRUE]

IdleClient ==
  [pc |-> "idle",            \* position in the call
   folderPath |-> <<>>,      \* argument of getFolderIdByPath
   folders |-> <<>>,         \* parseFolderPath's result
   currentParentId |-> ROOT,
   chain |-> <<>>,           \* identifiers getOrCreateFolder returned so far
   result |-> NoId,          \* value the call returned
   error |-> "none",         \* error the call threw
   errorFolder |-> <<>>,     \* folder name in the error message
   log |-> <<>>,             \* remote calls issued by this call, in order
   prev |-> NoPrev,          \* summary of the call before this one
   calls |-> 0]              \* calls started so far

\* The folder the loop of createFolderHierarchy is at.
folderName(c) == c.folders[Len(c.chain) + 1]

\* The query without its mimeType clause set to the folder type: it
\* matches plain files instead.
QueryFoldersWrongMime(fs, name, parentId) ==
  LET Matches(n) ==
        /\ fs[n].name = name
        /\ fs[n].mimeType = OtherMime
        /\ fs[n].parent = parentId
        /\ ~fs[n].trashed
  IN  SelectSeq([n \in 1..Len(fs) |-> n], Matches)

\* Identifiers of the items matching the query of getOrCreateFolder:
\* name='...' and mimeType=folder and '<parentId>' in parents and trashed=false
QueryFolders(fs, name, parentId) ==
  LET Matches(n) ==
        /\ fs[n].name = name
        /\ fs[n].mimeType = FolderMime
        /\ fs[n].parent = parentId
        /\ ~fs[n].trashed
  IN  SelectSeq([n \in 1..Len(fs) |-> n], Matches)

\* Entries of the log.
AuthCall(outcome) ==
  [op |-> "auth", name |-> <<>>, parent |-> ROOT, id |-> NoId,
   matched |-> 0, seen |-> 0, outcome |-> outcome]
ListCall(name, parent, id, matched, seen, outcome) ==
  [op |-> "list", name |-> name, parent |-> parent, id |-> id,
   matched |-> matched, seen |-> seen, outcome |-> outcome]
CreateCall(name, parent, id, seen, outcome) ==
  [op |-> "create", name |-> name, parent |-> parent, id |-> id,
   matched |-> 0, seen |-> seen, outcome |-> outcome]

\* A rejected files.create sent once more before the error propagates.
ThrowAfterSecondCreate(c, entry, error, folder) ==
  IF entry.op = "create" /\ (c.log = <<>> \/ c.log[Len(c.log)].op # "create")
  THEN [c EXCEPT !.log = Append(@, entry)]
  ELSE [c EXCEPT !.pc = "threw", !.error = error, !.errorFolder = folder,
                 !.log = Append(@, entry)]
\* A remote call rejected: the error propagates out of the call.
Throw(c, entry, error, folder) ==
  [c EXCEPT !.pc = "threw", !.error = error, !.errorFolder = folder,
            !.log = Append(@, entry)]

\* The loop not assigning currentParentId: every folder is looked up and
\* created under 'root'.
AdoptKeepParent(c, entry, id) ==
  LET chain == Append(c.chain, id)
  IN  [c EXCEPT !.log = Append(@, entry),
                !.chain = chain,
                !.pc = IF Len(chain) = Len(c.folders)
                       THEN "returned" ELSE "getDriveClient",
                !.result = IF Len(chain) = Len(c.folders) THEN id ELSE @]

\* getOrCreateFolder returns id: the loop adopts it as the current parent
\* and goes to the next folder, or createFolderHierarchy returns it.
Adopt(c, entry, id) ==
  LET chain == Append(c.chain, id)
  IN  [c EXCEPT !.log = Append(@, entry),
                !.chain = chain,
                !.currentParentId = id,
                !.pc = IF Len(chain) = Len(c.folders)
                       THEN "returned" ELSE "getDriveClient",
                !.result = IF Len(chain) = Len(c.folders) THEN id ELSE @]

\* Every lookup of the log that matched a folder came with its identifier.
AnsweredWithIds(log) ==
  \A k \in 1..Len(log) :
    log[k].op = "list" /\ log[k].matched > 0 => log[k].id # NoId

\* What is kept of a finished call when the next one starts.
Summary(c) ==
  [valid |-> c.calls > 0, folderPath |-> c.folderPath, chain |-> c.chain,
   returned |-> c.pc = "returned", withIds |-> AnsweredWithIds(c.log)]

\* getFolderIdByPath({ folderPath }) = createFolderHierarchy({ folderPath }),
\* up to its first await.
GetFolderIdByPath(p, folderPath) ==
  /\ client[p].pc \in {"idle", "returned", "threw"}
  /\ LET folders == parseFolderPath(folderPath)
         c == [IdleClient EXCEPT !.folderPath = folderPath,
                                 !.folders = folders,
                                 !.prev = Summary(client[p]),
                                 !.calls = client[p].calls + 1]
     IN  client' = [client EXCEPT ![p] =
           IF Len(folders) = 0
           THEN [c EXCEPT !.pc = "returned", !.result = ROOT]
           ELSE [c EXCEPT !.pc = "getDriveClient"]]
  /\ UNCHANGED files

\* getOrCreateFolder: await this.getDriveClient()
GetDriveClient(p, outcome) ==
  /\ client[p].pc = "getDriveClient"
  /\ outcome \in {"ok", "error"}
  /\ client' = [client EXCEPT ![p] =
       IF outcome = "ok"
       THEN [@ EXCEPT !.pc = "list", !.log = Append(@, AuthCall(outcome))]
       ELSE Throw(@, AuthCall(outcome), "RemoteCallFailure", <<>>)]
  /\ UNCHANGED files

\* getOrCreateFolder: await driveInstance.files.list(...) and the test of
\* folders[0].id.  Outcome "noId": the first item comes without its id.
FilesList(p, outcome) ==
  /\ client[p].pc = "list"
  /\ outcome \in {"ok", "noId", "error"}
  /\ LET c == client[p]
         name == folderName(c)
         found == QueryFolders(files, name, c.currentParentId)
         id == IF Len(found) > 0 /\ outcome = "ok" THEN found[1] ELSE NoId
         entry == ListCall(name, c.currentParentId, id, Len(found),
                           Len(files), outcome)
     IN  /\ outcome = "noId" => Len(found) > 0
         /\ client' = [client EXCEPT ![p] =
              IF outcome = "error"
              THEN Throw(c, entry, "RemoteCallFailure", <<>>)
              ELSE IF Len(found) > 0 /\ id # NoId
                   THEN Adopt(c, entry, id)
                   ELSE [c EXCEPT !.pc = "create", !.log = Append(@, entry)]]
  /\ UNCHANGED files

\* files.create with parents: ['root'] instead of [parentId].
FilesCreateInRoot(p, outcome) ==
  /\ client[p].pc = "create"
  /\ outcome \in {"ok", "noId", "error"}
  /\ LET c == client[p]
         name == folderName(c)
         id == Len(files) + 1
     IN  /\ files' = IF outcome = "error" THEN files
                     ELSE Append(files, Folder(name, ROOT))
         /\ client' = [client EXCEPT ![p] =
              CASE outcome = "error" ->
                     Throw(c, CreateCall(name, c.currentParentId, NoId,
                                         Len(files), outcome),
                           "RemoteCallFailure", <<>>)
                [] outcome = "noId" ->
                     Throw(c, CreateCall(name, c.currentParentId, NoId,
                                         Len(files), outcome),
                           "FolderCreationFailed", name)
                [] OTHER ->
                     Adopt(c, CreateCall(name, c.currentParentId, id,
                                         Len(files), outcome), id)]

\* A create that looks again first and adopts a folder that has appeared
\* since the lookup.
FilesCreateIfAbsent(p, outcome) ==
  /\ client[p].pc = "create"
  /\ outcome \in {"ok", "noId", "error"}
  /\ LET c == client[p]
         name == folderName(c)
         id == Len(files) + 1
         found == QueryFolders(files, name, c.currentParentId)
     IN  IF Len(found) > 0 /\ outcome = "ok"
         THEN /\ files' = files
              /\ client' = [client EXCEPT ![p] =
                   Adopt(c, ListCall(name, c.currentParentId, found[1],
                                     Len(found), Len(files), outcome), found[1])]
         ELSE /\ files' = IF outcome = "error" THEN files
                          ELSE Append(files, Folder(name, c.currentParentId))
              /\ client' = [client EXCEPT ![p] =
                   CASE outcome = "error" ->
                          Throw(c, CreateCall(name, c.currentParentId, NoId,
                                              Len(files), outcome),
                                "RemoteCallFailure", <<>>)
                     [] outcome = "noId" ->
                          Throw(c, CreateCall(name, c.currentParentId, NoId,
                                              Len(files), outcome),
                                "FolderCreationFailed", name)
                     [] OTHER ->
                          Adopt(c, CreateCall(name, c.currentParentId, id,
                                              Len(files), outcome), id)]

\* files.create without the test of folder.data.id: an absent identifier
\* is returned like any other.
FilesCreateUnchecked(p, outcome) ==
  /\ client[p].pc = "create"
  /\ outcome \in {"ok", "noId", "error"}
  /\ LET c == client[p]
         name == folderName(c)
         id == IF outcome = "noId" THEN NoId ELSE Len(files) + 1
     IN  /\ files' = IF outcome = "error" THEN files
                     ELSE Append(files, Folder(name, c.currentParentId))
         /\ client' = [client EXCEPT ![p] =
              IF outcome = "error"
              THEN Throw(c, CreateCall(name, c.currentParentId, NoId,
                                       Len(files), outcome),
                         "RemoteCallFailure", <<>>)
              ELSE Adopt(c, CreateCall(name, c.currentParentId, id,
                                       Len(files), outcome), id)]

\* getOrCreateFolder: await driveInstance.files.create(...) and the test of
\* folder.data.id.  Outcome "noId": the folder is created, the response
\* carries no id.
FilesCreate(p, outcome) ==
  /\ client[p].pc = "create"
  /\ outcome \in {"ok", "noId", "error"}
  /\ LET c == client[p]
         name == folderName(c)
         id == Len(files) + 1
     IN  /\ files' = IF outcome = "error" THEN files
                     ELSE Append(files, Folder(name, c.currentParentId))
         /\ client' = [client EXCEPT ![p] =
              CASE outcome = "error" ->
                     Throw(c, CreateCall(name, c.currentParentId, NoId,
                                         Len(files), outcome),
                           "RemoteCallFailure", <<>>)
                [] outcome = "noId" ->
                     Throw(c, CreateCall(name, c.currentParentId, NoId,
                                         Len(files), outcome),
                           "FolderCreationFailed", name)
                [] OTHER ->
                     Adopt(c, CreateCall(name, c.currentParentId, id,
                                         Len(files), outcome), id)]

(***************************************************************************)
(* uploadFile and uploadFileAndShare of client 1, and the permissions of   *)
(* the remote.                                                             *)
(***************************************************************************)
VARIABLES
  upload,       \* the operation in progress: its arguments, position, log
  permissions   \* the remote: sequence of the permissions created

\* permissions.create as it appears in the operation's log.
PermissionCall(fileId, role, type, emailAddress, outcome) ==
  [op |-> "permission", id |-> fileId, role |-> role, type |-> type,
   emailAddress |-> emailAddress, outcome |-> outcome]

NoUpload ==
  [op |-> "none",            \* "uploadFile" or "uploadFileAndShare"
   pc |-> "idle",            \* position in the operation
   localFileExists |-> FALSE, \* what validateFileExists finds
   driveFolder |-> <<>>,     \* arguments
   finalFileName |-> <<>>,
   shareWithEmail |-> "",
   role |-> "undefined",
   folderId |-> NoId,        \* what createFolderHierarchy returned
   resultId |-> NoId,        \* result.id: file.data.id || ''
   shareFolderId |-> NoId,   \* what getFolderIdByPath returned
   uploaded |-> FALSE,       \* uploadFile returned result
   returned |-> FALSE,       \* the operation returned result
   error |-> "none",         \* or the error it threw
   log |-> <<>>,             \* every remote call of the operation, in order
   before |-> [files |-> <<>>, permissions |-> <<>>]]  \* the remote at its start

(***************************************************************************)
(* State of the utility calls: which function was applied, to what, and    *)
(* what it gave.                                                           *)
(***************************************************************************)
VARIABLES
  upc,          \* "init", "named", "roundtrip", "parsed", "row"
  columnIndex,  \* argument of convertIndexToColumnName
  columnName,   \* its result, or the argument of convertColumnNameToIndex
  indexResult,  \* result of convertColumnNameToIndex
  dataRowIndex, \* arguments of calculateActualRow
  rowOffset,
  actualRow     \* its result

uvars == <<upc, columnIndex, columnName, indexResult, dataRowIndex, rowOffset, actualRow>>

VARIABLES
  sheetUrl,      \* argument of getSheetIdFromUrl and isValidSheetUrl
  sheetIdResult, \* result of getSheetIdFromUrl
  validResult,   \* result of isValidSheetUrl
  configArgs,    \* class and arguments of the configuration constructor
  configResult,  \* the object it built, or the error it threw
  authOptions,   \* result of getAuthOptions on the object built
  callArgs,      \* arguments of parseFolderPath or convertValueSheet
  callResult     \* what it returned

cvars ==
  <<sheetUrl, sheetIdResult, validResult, configArgs, configResult, authOptions,
    callArgs, callResult>>

(***************************************************************************)
(* The remote spreadsheet and the Sheets client (gg-sheet/google-sheet.ts).*)
(*                                                                         *)
(* The spreadsheet has one tab; its grid is a sequence of rows of          *)
(* ColumnCount cells, a cell is a string, empty when the cell is blank.    *)
(* A range is a record: the whole tab, one cell ("A2") or an area          *)
(* ("A1:B3"), with its columns by name as the client wrote them.           *)
(***************************************************************************)
VARIABLES
  spreadsheet,  \* the remote: sequence of tabs [title, sheetId, rows]
  sheet         \* per client: the operation in progress

\* The identifier of the remote spreadsheet, its tab, and the width of the
\* tab's grid.
SpreadsheetId == <<Code.a>>
TabTitle == "Sheet1"
ColumnCount == 2

\* The grids a tab starts with: up to MaxGridRows rows, each blank, or
\* holding data, or holding a blank-only cell in column A.
GridInputs ==
  SeqsUpTo({<<<<>>, <<>>>>,
            <<<<Code.a>>, <<Code.b>>>>,
            <<<<Code.space>>, <<Code.a>>>>}, MaxGridRows) \ {<<>>}

\* The rectangle of the grid a range names: 1-based columns and rows.  A
\* column name the grid cannot resolve gives column 0.
RangeBox(range, rows) ==
  LET Column(name) ==
        IF convertColumnNameToIndex(name).threw THEN 0
        ELSE convertColumnNameToIndex(name).value + 1
  IN  IF range.kind = "sheet"
      THEN [c1 |-> 1, r1 |-> 1, c2 |-> ColumnCount, r2 |-> Len(rows)]
      ELSE [c1 |-> Column(range.startCol), r1 |-> range.startRow,
            c2 |-> Column(range.endCol), r2 |-> range.endRow]

\* The range lies within the grid.
InGrid(range, rows) ==
  LET box == RangeBox(range, rows)
  IN  /\ 1 <= box.c1 /\ box.c1 <= box.c2 /\ box.c2 <= ColumnCount
      /\ 1 <= box.r1 /\ box.r1 <= box.r2 /\ box.r2 <= Len(rows)

\* spreadsheets.values.get: the rows of the range, without the blank cells
\* that end a row and without the blank rows that end the range.
ValuesGet(rows, range) ==
  LET box == RangeBox(range, rows)
      RECURSIVE DropBlankEnd(_)
      DropBlankEnd(s) ==
        IF s # <<>> /\ s[Len(s)] = <<>>
        THEN DropBlankEnd(SubSeq(s, 1, Len(s) - 1))
        ELSE s
  IN  DropBlankEnd([r \in 1..(box.r2 - box.r1 + 1) |->
                      DropBlankEnd(SubSeq(rows[box.r1 + r - 1], box.c1, box.c2))])

\* A remote that writes into blank cells only and keeps what a cell holds.
ValuesUpdateBlankOnly(rows, range, values) ==
  LET box == RangeBox(range, rows)
      Covered(r, c) ==
        /\ r >= box.r1 /\ r - box.r1 + 1 <= Len(values)
        /\ c >= box.c1 /\ c - box.c1 + 1 <= Len(values[r - box.r1 + 1])
  IN  [r \in 1..Len(rows) |->
         [c \in 1..ColumnCount |->
            IF Covered(r, c) /\ rows[r][c] = <<>>
            THEN values[r - box.r1 + 1][c - box.c1 + 1]
            ELSE rows[r][c]]]
\* spreadsheets.values.batchUpdate with valueInputOption RAW, one entry of
\* its data: the cells the values cover take the values.
ValuesUpdate(rows, range, values) ==
  LET box == RangeBox(range, rows)
      Covered(r, c) ==
        /\ r >= box.r1 /\ r - box.r1 + 1 <= Len(values)
        /\ c >= box.c1 /\ c - box.c1 + 1 <= Len(values[r - box.r1 + 1])
  IN  [r \in 1..Len(rows) |->
         [c \in 1..ColumnCount |->
            IF Covered(r, c)
            THEN values[r - box.r1 + 1][c - box.c1 + 1]
            ELSE rows[r][c]]]

\* The remote accepts the entry: the range lies within the grid and the
\* values fit into the range.
ValuesFit(rows, range, values) ==
  LET box == RangeBox(range, rows)
  IN  /\ InGrid(range, rows)
      /\ Len(values) <= box.r2 - box.r1 + 1
      /\ \A i \in 1..Len(values) : Len(values[i]) <= box.c2 - box.c1 + 1

\* The public operations of the Sheets client.
SheetOps ==
  {"getSheetInfo", "getValues", "getIdxRow", "export", "deleteRowSheet",
   "updateValuesMultiCells", "updateValuesMultiColsByRow",
   "updateValuesMultiRowsByCol", "updateValuesMultiRowsMultiCols"}

\* The arguments of the model for each operation, sheetUrl and sheetName
\* apart.  An omitted optional argument is Undefined; listCols holds "h",
\* the written data "d".
SheetArgs(op) ==
  LET Offsets == {Undefined, 1}
      Pairs ==
        {<<>>,
         <<[col |-> 0, row |-> 0, content |-> <<Code.d>>]>>,
         <<[col |-> 1, row |-> 1, content |-> <<Code.d>>],
           [col |-> 0, row |-> 0, content |-> <<Code.e>>]>>}
      Matrices(n) ==
        {[i \in 1..k |-> [j \in 1..n |-> <<Code.d>>]] : k \in 0..MaxExportRows}
  IN  CASE op = "getSheetInfo" -> {[none |-> TRUE]}
        [] op = "getValues" -> {[endRow |-> e] : e \in {Undefined, 0, 1, MaxGridRows}}
        [] op = "getIdxRow" ->
             {[colName |-> c, value |-> v] :
                c \in {<<Code.A>>, <<Code.B>>}, v \in {<<Code.a>>, <<Code.b>>}}
        [] op = "export" ->
             {[listCols |-> [j \in 1..n |-> <<Code.h>>], valsExport |-> m,
               typeExport |-> t] :
                n \in 1..ColumnCount, m \in Matrices(1) \cup Matrices(ColumnCount),
                t \in {"Overwrite", "Append", "Other"}}
        [] op = "deleteRowSheet" ->
             {[row |-> r, rowOffset |-> o] : r \in 0..MaxGridRows, o \in Offsets}
        [] op = "updateValuesMultiCells" ->
             {[cells |-> c, rowOffset |-> o] : c \in Pairs, o \in Offsets}
        [] op = "updateValuesMultiColsByRow" ->
             {[row |-> r, values |-> v, rowOffset |-> o] :
                r \in {0, 1}, v \in Pairs, o \in Offsets}
        [] op = "updateValuesMultiRowsByCol" ->
             {[col |-> c, values |-> v, rowOffset |-> o] :
                c \in {0, 1}, v \in Pairs, o \in Offsets}
        [] op = "updateValuesMultiRowsMultiCols" ->
             {[values |-> v, startRow |-> r, endRow |-> e, startCol |-> c,
               rowOffset |-> o] :
                v \in Matrices(ColumnCount) \cup {<<<<>>>>},
                r \in {Undefined, 1}, e \in {Undefined, 1},
                c \in {Undefined, 1}, o \in Offsets}

IdleSheet ==
  [op |-> "none",            \* the operation called
   pc |-> "idle",            \* position in the operation
   inner |-> FALSE,          \* within the getSheetInfo that getValues and getIdxRow call
   sheetUrl |-> <<>>,        \* arguments
   sheetName |-> "",
   args |-> [none |-> TRUE],
   spreadsheetId |-> <<>>,   \* what extractSheetId returned
   request |-> <<>>,         \* the range to read, the data to write, or the row to delete
   result |-> <<>>,          \* value the operation returned
   error |-> "none",         \* error the operation threw
   log |-> <<>>,             \* remote calls issued by the operation, in order
   before |-> <<>>,          \* the remote at its start
   found |-> [index |-> Undefined, colName |-> <<>>, value |-> <<>>]]
                             \* the getIdxRow whose result this operation was given

\* A1Range numbering the rows from 0, as the data rows are.
A1RangeZeroBased(kind, sheetName, startCol, startRow, endCol, endRow) ==
  [kind |-> kind, sheetName |-> sheetName, startCol |-> startCol,
   startRow |-> startRow - 1, endCol |-> endCol, endRow |-> endRow - 1]
\* A range in A1 notation: "<sheetName>!<startCol><startRow>" for one cell,
\* "<sheetName>!<startCol><startRow>:<endCol><endRow>" for an area.
A1Range(kind, sheetName, startCol, startRow, endCol, endRow) ==
  [kind |-> kind, sheetName |-> sheetName, startCol |-> startCol,
   startRow |-> startRow, endCol |-> endCol, endRow |-> endRow]

\* The data of the values.batchUpdate request an operation builds:
\* entries [range, values].  startRow is the row executeAppendExport found.
BatchData(c, startRow) ==
  LET a == c.args
      Cell(col, row, content) ==
        [range |-> A1Range("cell", c.sheetName, convertIndexToColumnName(col),
                           calculateActualRow(row, a.rowOffset),
                           convertIndexToColumnName(col),
                           calculateActualRow(row, a.rowOffset)),
         values |-> <<<<content>>>>]
      Area(col, row, numCols, endRow, values) ==
        [range |-> A1Range("area", c.sheetName, convertIndexToColumnName(col),
                           row, convertIndexToColumnName(col + numCols - 1),
                           endRow),
         values |-> values]
  IN  CASE c.op = "updateValuesMultiCells" ->
             [k \in 1..Len(a.cells) |->
                Cell(a.cells[k].col, a.cells[k].row, a.cells[k].content)]
        [] c.op = "updateValuesMultiColsByRow" ->
             [k \in 1..Len(a.values) |->
                Cell(a.values[k].col, a.row, a.values[k].content)]
        [] c.op = "updateValuesMultiRowsByCol" ->
             [k \in 1..Len(a.values) |->
                Cell(a.col, a.values[k].row, a.values[k].content)]
        [] c.op = "updateValuesMultiRowsMultiCols" ->
             LET startCol == IF a.startCol = Undefined THEN 0 ELSE a.startCol
                 startRowIndex ==
                   calculateActualRow(IF a.startRow = Undefined THEN 0
                                      ELSE a.startRow, a.rowOffset)
                 endRowIndex ==
                   IF a.endRow # Undefined
                   THEN calculateActualRow(a.endRow, a.rowOffset)
                   ELSE startRowIndex + Len(a.values) - 1
             IN  <<Area(startCol, startRowIndex, Len(a.values[1]),
                        endRowIndex, a.values)>>
        [] c.op = "export" ->
             LET dataToWrite ==
                   IF startRow = 1 THEN <<a.listCols>> \o a.valsExport
                   ELSE a.valsExport
             IN  <<Area(0, startRow, Len(a.listCols),
                        startRow + Len(dataToWrite) - 1, dataToWrite)>>

\* An operation is called: what it does before its first await.  The
\* update operations test their cells or values first.
SheetCall(p, op, url, sheetName, args, found) ==
  LET noData ==
        CASE op = "updateValuesMultiCells" -> Len(args.cells) = 0
          [] op \in {"updateValuesMultiColsByRow", "updateValuesMultiRowsByCol"} ->
               Len(args.values) = 0
          [] op = "updateValuesMultiRowsMultiCols" ->
               Len(args.values) = 0 \/ Len(args.values[1]) = 0
          [] OTHER -> FALSE
  IN  sheet' = [sheet EXCEPT ![p] =
        [IdleSheet EXCEPT
           !.op = op, !.sheetUrl = url, !.sheetName = sheetName,
           !.args = args, !.before = spreadsheet, !.found = found,
           !.pc = IF noData THEN "threw" ELSE "getSheetsClient",
           !.error = IF noData THEN "NoDataProvided" ELSE "none"]]
\* The state of the Sheets client and of its remote.
svars == <<spreadsheet, sheet>>

\* The state of the operations built on the folder resolver, and svars.
ovars == <<upload, permissions, svars>>

vars == <<uvars, cvars, dvars, ovars>>

\* No operation was started.
InitOperations ==
  /\ upload = NoUpload
  /\ permissions = <<>>
  /\ sheet = [p \in Clients |-> IdleSheet]

\* The spreadsheet with its tab holding the rows of grid.
Spreadsheet(grid) == <<[title |-> TabTitle, sheetId |-> 0, rows |-> grid]>>

\* Nothing was converted or constructed yet.
InitCalls ==
  /\ sheetUrl = <<>>
  /\ sheetIdResult = Null
  /\ validResult = FALSE
  /\ configArgs = [class |-> "none", keyFilePath |-> Absent,
                   credentials |-> NoCredentials,
                   scopes |-> [isAbsent |-> TRUE, value |-> <<>>]]
  /\ configResult = ThrewConfig("none")
  /\ authOptions = getAuthOptions(NoConfig)
  /\ callArgs = [none |-> TRUE]
  /\ callResult = [none |-> TRUE]

InitUtils ==
  /\ upc = "init"
  /\ columnIndex = 0
  /\ columnName = <<>>
  /\ indexResult = Returned(0)
  /\ dataRowIndex = 0
  /\ rowOffset = Undefined
  /\ actualRow = 0
  /\ InitCalls
  /\ InitOperations
  /\ spreadsheet = Spreadsheet([r \in 1..MaxGridRows |-> <<<<>>, <<>>>>])
  /\ files = <<>>
  /\ client = [p \in Clients |-> IdleClient]
  /\ repeats = 0

\* convertIndexToColumnName({ columnIndex: i })
CallConvertIndexToColumnName ==
  /\ upc = "init"
  /\ \E i \in 0..MaxColumnIndex :
       /\ columnIndex' = i
       /\ columnName' = convertIndexToColumnName(i)
  /\ upc' = "named"
  /\ UNCHANGED <<indexResult, dataRowIndex, rowOffset, actualRow>>
  /\ UNCHANGED <<cvars, dvars, ovars>>

\* convertColumnNameToIndex applied to the name just produced.
CallConvertBack ==
  /\ upc = "named"
  /\ indexResult' = convertColumnNameToIndex(columnName)
  /\ upc' = "roundtrip"
  /\ UNCHANGED <<columnIndex, columnName, dataRowIndex, rowOffset, actualRow>>
  /\ UNCHANGED <<cvars, dvars, ovars>>

\* convertColumnNameToIndex({ columnName: s })
CallConvertColumnNameToIndex ==
  /\ upc = "init"
  /\ \E s \in NameInputs :
       /\ columnName' = s
       /\ indexResult' = convertColumnNameToIndex(s)
  /\ upc' = "parsed"
  /\ UNCHANGED <<columnIndex, dataRowIndex, rowOffset, actualRow>>
  /\ UNCHANGED <<cvars, dvars, ovars>>

\* calculateActualRow({ dataRowIndex: r, rowOffset: o }), o possibly omitted
CallCalculateActualRow ==
  /\ upc = "init"
  /\ \E r \in 0..MaxDataRow, o \in {Undefined} \cup 0..MaxRowOffset :
       /\ dataRowIndex' = r
       /\ rowOffset' = o
       /\ actualRow' = calculateActualRow(r, o)
  /\ upc' = "row"
  /\ UNCHANGED <<columnIndex, columnName, indexResult>>
  /\ UNCHANGED <<cvars, dvars, ovars>>

\* getSheetIdFromUrl({ sheetUrl: u }) and isValidSheetUrl({ sheetUrl: u })
CallGetSheetIdFromUrl ==
  /\ upc = "init"
  /\ \E u \in UrlInputs :
       /\ sheetUrl' = u
       /\ sheetIdResult' = getSheetIdFromUrl(u)
       /\ validResult' = isValidSheetUrl(u)
  /\ upc' = "url"
  /\ UNCHANGED <<columnIndex, columnName, indexResult, dataRowIndex, rowOffset, actualRow>>
  /\ UNCHANGED <<configArgs, configResult, authOptions, callArgs, callResult>>
  /\ UNCHANGED <<dvars, ovars>>

\* new GoogleDriveConfig({ keyFilePath, credentials, scopes }), and the
\* same of GoogleSheetConfig
CallNewConfig ==
  /\ upc = "init"
  /\ \E class \in {"GoogleDriveConfig", "GoogleSheetConfig"},
        keyFilePath \in {Absent, Given(""), Given("key.json")},
        credentials \in CredentialsInputs,
        scopes \in {[isAbsent |-> TRUE, value |-> <<>>],
                    [isAbsent |-> FALSE, value |-> <<>>],
                    [isAbsent |-> FALSE, value |-> <<"scope">>]} :
       /\ configArgs' = [class |-> class, keyFilePath |-> keyFilePath,
                         credentials |-> credentials, scopes |-> scopes]
       /\ configResult' = NewConfig(class, keyFilePath, credentials, scopes)
  /\ upc' = "config"
  /\ UNCHANGED <<columnIndex, columnName, indexResult, dataRowIndex, rowOffset, actualRow>>
  /\ UNCHANGED <<sheetUrl, sheetIdResult, validResult, authOptions>>
  /\ UNCHANGED <<callArgs, callResult>>
  /\ UNCHANGED <<dvars, ovars>>

\* parseFolderPath({ folderPath })
CallParseFolderPath ==
  /\ upc = "init"
  /\ \E folderPath \in ParsePathInputs :
       /\ callArgs' = [folderPath |-> folderPath]
       /\ callResult' = [folders |-> parseFolderPath(folderPath)]
  /\ upc' = "parseFolderPath"
  /\ UNCHANGED <<columnIndex, columnName, indexResult, dataRowIndex, rowOffset, actualRow>>
  /\ UNCHANGED <<sheetUrl, sheetIdResult, validResult, configArgs, configResult, authOptions>>
  /\ UNCHANGED <<dvars, ovars>>

\* convertValueSheet({ values, rowOffset: k }), rowOffset omitted included
CallConvertValueSheet ==
  /\ upc = "init"
  /\ \E values \in ValuesInputs, k \in {Undefined} \cup (0..MaxRowOffset) :
       /\ callArgs' = [values |-> values, rowOffset |-> k]
       /\ callResult' = convertValueSheet(values, k)
  /\ upc' = "convertValueSheet"
  /\ UNCHANGED <<columnIndex, columnName, indexResult, dataRowIndex, rowOffset, actualRow>>
  /\ UNCHANGED <<sheetUrl, sheetIdResult, validResult, configArgs, configResult, authOptions>>
  /\ UNCHANGED <<dvars, ovars>>

\* config.getAuthOptions() on the object just built
CallGetAuthOptions ==
  /\ upc = "config"
  /\ ~configResult.threw
  /\ authOptions' = getAuthOptions(configResult.config)
  /\ upc' = "auth"
  /\ UNCHANGED <<columnIndex, columnName, indexResult, dataRowIndex, rowOffset, actualRow>>
  /\ UNCHANGED <<sheetUrl, sheetIdResult, validResult, configArgs, configResult>>
  /\ UNCHANGED <<callArgs, callResult>>
  /\ UNCHANGED <<dvars, ovars>>

NextUtils ==
  \/ CallConvertIndexToColumnName
  \/ CallConvertBack
  \/ CallConvertColumnNameToIndex
  \/ CallCalculateActualRow
  \/ CallGetSheetIdFromUrl
  \/ CallNewConfig
  \/ CallGetAuthOptions
  \/ CallParseFolderPath
  \/ CallConvertValueSheet

SpecUtils == InitUtils /\ [][NextUtils]_vars

(***************************************************************************)
(* One client resolving a folder path, and then the same path again,       *)
(* against a remote nobody else changes.  The client keeps nothing from    *)
(* one call to the next: what earlier calls did is in the remote's         *)
(* initial content.                                                        *)
(***************************************************************************)
InitDrive ==
  /\ upc = "init"
  /\ columnIndex = 0
  /\ columnName = <<>>
  /\ indexResult = Returned(0)
  /\ dataRowIndex = 0
  /\ rowOffset = Undefined
  /\ actualRow = 0
  /\ InitCalls
  /\ InitOperations
  /\ spreadsheet = Spreadsheet([r \in 1..MaxGridRows |-> <<<<>>, <<>>>>])
  /\ files \in InitialRemotes
  /\ client = [p \in Clients |-> IdleClient]
  /\ repeats = 0

CallGetFolderIdByPath ==
  /\ client[1].calls = 0
  /\ \E folderPath \in PathInputs : GetFolderIdByPath(1, folderPath)
  /\ UNCHANGED <<uvars, cvars, repeats, ovars>>

\* The caller resolves the path of the finished call once more.
CallGetFolderIdByPathAgain ==
  /\ client[1].calls > 0
  /\ repeats < MaxRepeats
  /\ GetFolderIdByPath(1, client[1].folderPath)
  /\ repeats' = repeats + 1
  /\ UNCHANGED <<uvars, cvars, ovars>>

StepGetDriveClient ==
  /\ \E outcome \in {"ok", "error"} : GetDriveClient(1, outcome)
  /\ UNCHANGED <<uvars, cvars, repeats, ovars>>

StepFilesList ==
  /\ \E outcome \in {"ok", "noId", "error"} : FilesList(1, outcome)
  /\ UNCHANGED <<uvars, cvars, repeats, ovars>>

StepFilesCreate ==
  /\ \E outcome \in {"ok", "noId", "error"} : FilesCreate(1, outcome)
  /\ UNCHANGED <<uvars, cvars, repeats, ovars>>

NextDrive ==
  \/ CallGetFolderIdByPath
  \/ CallGetFolderIdByPathAgain
  \/ StepGetDriveClient
  \/ StepFilesList
  \/ StepFilesCreate

SpecDrive == InitDrive /\ [][NextDrive]_vars

(***************************************************************************)
(* Two clients resolving folder paths concurrently, one call each.         *)
(***************************************************************************)
RaceCallGetFolderIdByPath ==
  /\ \E p \in Clients :
       /\ client[p].calls = 0
       /\ \E folderPath \in RacePathInputs : GetFolderIdByPath(p, folderPath)
  /\ UNCHANGED <<uvars, cvars, repeats, ovars>>

RaceGetDriveClient ==
  /\ \E p \in Clients, outcome \in {"ok", "error"} : GetDriveClient(p, outcome)
  /\ UNCHANGED <<uvars, cvars, repeats, ovars>>

RaceFilesList ==
  /\ \E p \in Clients, outcome \in {"ok", "noId", "error"} : FilesList(p, outcome)
  /\ UNCHANGED <<uvars, cvars, repeats, ovars>>

RaceFilesCreate ==
  /\ \E p \in Clients, outcome \in {"ok", "noId", "error"} : FilesCreate(p, outcome)
  /\ UNCHANGED <<uvars, cvars, repeats, ovars>>

NextRace ==
  \/ RaceCallGetFolderIdByPath
  \/ RaceGetDriveClient
  \/ RaceFilesList
  \/ RaceFilesCreate

SpecRace == InitDrive /\ [][NextRace]_vars

(***************************************************************************)
(* Client 1 uploading one file, with or without sharing the folder.  The   *)
(* folder hierarchy is resolved by the steps of getFolderIdByPath above;   *)
(* the operation's log takes every remote call in the order issued.        *)
(***************************************************************************)
\* uploadFile without its validateFileExists test: a missing local file is
\* found by createFileReadStream only.
UploadFileUnchecked ==
  /\ upload.pc = "idle"
  /\ client[1].calls = 0
  /\ \E op \in {"uploadFile", "uploadFileAndShare"}, exists \in BOOLEAN,
        driveFolder \in PathInputs, finalFileName \in {<<Code.a>>, <<Code.b>>},
        role \in {"undefined", "writer", "owner"} :
       /\ op = "uploadFile" => role = "undefined"
       /\ upload' =
            [NoUpload EXCEPT
               !.op = op,
               !.localFileExists = exists,
               !.driveFolder = driveFolder,
               !.finalFileName = finalFileName,
               !.shareWithEmail = IF op = "uploadFile" THEN ""
                                  ELSE "colleague@example.com",
               !.role = role,
               !.before = [files |-> files, permissions |-> permissions],
               !.pc = "getDriveClient"]
  /\ UNCHANGED <<uvars, cvars, svars, dvars, permissions>>

\* uploadFile({ localFilePath, driveFolder, fileName }) up to its first
\* await, called directly or by uploadFileAndShare({ ..., shareWithEmail,
\* role }).  exists is what validateFileExists finds at localFilePath.
UploadFile ==
  /\ upload.pc = "idle"
  /\ client[1].calls = 0
  /\ \E op \in {"uploadFile", "uploadFileAndShare"}, exists \in BOOLEAN,
        driveFolder \in PathInputs, finalFileName \in {<<Code.a>>, <<Code.b>>},
        role \in {"undefined", "writer", "owner"} :
       /\ op = "uploadFile" => role = "undefined"
       /\ upload' =
            [NoUpload EXCEPT
               !.op = op,
               !.localFileExists = exists,
               !.driveFolder = driveFolder,
               !.finalFileName = finalFileName,
               !.shareWithEmail = IF op = "uploadFile" THEN ""
                                  ELSE "colleague@example.com",
               !.role = role,
               !.before = [files |-> files, permissions |-> permissions],
               !.pc = IF exists THEN "getDriveClient" ELSE "threw",
               !.error = IF exists THEN "none" ELSE "LocalFileNotFound"]
  /\ UNCHANGED <<uvars, cvars, svars, dvars, permissions>>

\* uploadFile: await this.getDriveClient(), then createFolderHierarchy up
\* to its first await.
UploadGetDriveClient ==
  /\ upload.pc = "getDriveClient"
  /\ \E outcome \in {"ok", "error"} :
       IF outcome = "error"
       THEN /\ upload' = [upload EXCEPT !.pc = "threw",
                                        !.error = "RemoteCallFailure",
                                        !.log = Append(@, AuthCall(outcome))]
            /\ UNCHANGED <<files, client>>
       ELSE /\ upload' = [upload EXCEPT !.pc = "createFolderHierarchy",
                                        !.log = Append(@, AuthCall(outcome))]
            /\ GetFolderIdByPath(1, upload.driveFolder)
  /\ UNCHANGED <<uvars, cvars, svars, repeats, permissions>>

\* One remote call of getOrCreateFolder, in createFolderHierarchy or in
\* the getFolderIdByPath of uploadFileAndShare.
UploadResolveStep ==
  /\ upload.pc \in {"createFolderHierarchy", "getFolderIdByPath"}
  /\ \E outcome \in {"ok", "noId", "error"} :
       \/ GetDriveClient(1, outcome)
       \/ FilesList(1, outcome)
       \/ FilesCreate(1, outcome)
  /\ upload' = [upload EXCEPT
                  !.log = Append(@, client'[1].log[Len(client'[1].log)])]
  /\ UNCHANGED <<uvars, cvars, svars, repeats, permissions>>

\* The resolution threw: the error leaves uploadFile or uploadFileAndShare.
UploadResolveThrew ==
  /\ upload.pc \in {"createFolderHierarchy", "getFolderIdByPath"}
  /\ client[1].pc = "threw"
  /\ upload' = [upload EXCEPT !.pc = "threw", !.error = client[1].error]
  /\ UNCHANGED <<uvars, cvars, svars, dvars, permissions>>

\* uploadFile making the file public only when the response carried its
\* id, and returning the result without it otherwise.
UploadFilesCreateSkipPublic ==
  /\ upload.pc = "createFolderHierarchy"
  /\ client[1].pc = "returned"
  /\ \E exists \in BOOLEAN, outcome \in {"ok", "noId", "error"} :
       LET folderId == client[1].result
           id == IF outcome = "ok" THEN Len(files) + 1 ELSE NoId
           entry == [op |-> "upload", name |-> upload.finalFileName,
                     parent |-> folderId, id |-> id, outcome |-> outcome]
       IN  IF ~exists
           THEN /\ outcome = "error"
                /\ upload' = [upload EXCEPT !.pc = "threw",
                                            !.folderId = folderId,
                                            !.error = "LocalFileNotFound"]
                /\ UNCHANGED files
           ELSE IF outcome = "error"
           THEN /\ upload' = [upload EXCEPT !.pc = "threw",
                                            !.folderId = folderId,
                                            !.error = "RemoteCallFailure",
                                            !.log = Append(@, entry)]
                /\ UNCHANGED files
           ELSE /\ upload' = [upload EXCEPT
                              !.pc = IF id = NoId THEN "returned"
                                     ELSE "makeFilePublic",
                              !.uploaded = id = NoId,
                              !.returned = id = NoId,
                              !.folderId = folderId,
                              !.resultId = id,
                              !.log = Append(@, entry)]
                /\ files' = Append(files, Item(upload.finalFileName, OtherMime,
                                               folderId, FALSE))
  /\ UNCHANGED <<uvars, cvars, svars, client, repeats, permissions>>

\* uploadFile after createFolderHierarchy returned: createFileReadStream,
\* which looks for the local file once more, and await files.create.
\* Outcome "noId": the file is created, the response carries no id.
UploadFilesCreate ==
  /\ upload.pc = "createFolderHierarchy"
  /\ client[1].pc = "returned"
  /\ \E exists \in BOOLEAN, outcome \in {"ok", "noId", "error"} :
       LET folderId == client[1].result
           id == IF outcome = "ok" THEN Len(files) + 1 ELSE NoId
           entry == [op |-> "upload", name |-> upload.finalFileName,
                     parent |-> folderId, id |-> id, outcome |-> outcome]
       IN  IF ~exists
           THEN /\ outcome = "error"
                /\ upload' = [upload EXCEPT !.pc = "threw",
                                            !.folderId = folderId,
                                            !.error = "LocalFileNotFound"]
                /\ UNCHANGED files
           ELSE IF outcome = "error"
           THEN /\ upload' = [upload EXCEPT !.pc = "threw",
                                            !.folderId = folderId,
                                            !.error = "RemoteCallFailure",
                                            !.log = Append(@, entry)]
                /\ UNCHANGED files
           ELSE /\ upload' = [upload EXCEPT !.pc = "makeFilePublic",
                                            !.folderId = folderId,
                                            !.resultId = id,
                                            !.log = Append(@, entry)]
                /\ files' = Append(files, Item(upload.finalFileName, OtherMime,
                                               folderId, FALSE))
  /\ UNCHANGED <<uvars, cvars, svars, client, repeats, permissions>>

\* makeFilePublic and shareFolderWithEmail: await this.getDriveClient()
UploadPermissionAuth ==
  /\ \/ upload.pc = "makeFilePublic"
     \/ upload.pc = "getFolderIdByPath" /\ client[1].pc = "returned"
  /\ \E outcome \in {"ok", "error"} :
       upload' =
         [upload EXCEPT
            !.pc = IF outcome = "error" THEN "threw"
                   ELSE IF upload.pc = "makeFilePublic"
                        THEN "makeFilePublic.permissions.create"
                        ELSE "shareFolderWithEmail.permissions.create",
            !.shareFolderId = IF upload.pc = "makeFilePublic" THEN @
                              ELSE client[1].result,
            !.error = IF outcome = "error" THEN "RemoteCallFailure" ELSE @,
            !.log = Append(@, AuthCall(outcome))]
  /\ UNCHANGED <<uvars, cvars, svars, dvars, permissions>>

\* uploadFile removing the file it created when it cannot make it public.
UploadMakeFilePublicUndo ==
  /\ upload.pc = "makeFilePublic.permissions.create"
  /\ \E outcome \in {"ok", "error"} :
       LET entry == PermissionCall(upload.resultId, "reader", "anyone", "",
                                   outcome)
       IN  /\ outcome = "ok" => upload.resultId \in 1..Len(files)
           /\ IF outcome = "error"
              THEN /\ upload' = [upload EXCEPT !.pc = "threw",
                                               !.error = "RemoteCallFailure",
                                               !.log = Append(@, entry)]
                   /\ files' = SubSeq(files, 1, Len(files) - 1)
                   /\ UNCHANGED <<client, permissions>>
              ELSE /\ permissions' =
                        Append(permissions,
                               [fileId |-> upload.resultId, role |-> "reader",
                                type |-> "anyone", emailAddress |-> ""])
                   /\ IF upload.op = "uploadFile"
                      THEN /\ upload' = [upload EXCEPT !.pc = "returned",
                                                       !.uploaded = TRUE,
                                                       !.returned = TRUE,
                                                       !.log = Append(@, entry)]
                           /\ UNCHANGED <<files, client>>
                      ELSE /\ upload' = [upload EXCEPT !.pc = "getFolderIdByPath",
                                                       !.uploaded = TRUE,
                                                       !.log = Append(@, entry)]
                           /\ GetFolderIdByPath(1, upload.driveFolder)
  /\ UNCHANGED <<uvars, cvars, svars, repeats>>

\* makeFilePublic: await permissions.create({ fileId: result.id, role:
\* 'reader', type: 'anyone' }); the remote rejects a fileId it has no item
\* for.  Then uploadFile returns result, and uploadFileAndShare goes on
\* with getFolderIdByPath up to its first await.
UploadMakeFilePublic ==
  /\ upload.pc = "makeFilePublic.permissions.create"
  /\ \E outcome \in {"ok", "error"} :
       LET entry == PermissionCall(upload.resultId, "reader", "anyone", "",
                                   outcome)
       IN  /\ outcome = "ok" => upload.resultId \in 1..Len(files)
           /\ IF outcome = "error"
              THEN /\ upload' = [upload EXCEPT !.pc = "threw",
                                               !.error = "RemoteCallFailure",
                                               !.log = Append(@, entry)]
                   /\ UNCHANGED <<files, client, permissions>>
              ELSE /\ permissions' =
                        Append(permissions,
                               [fileId |-> upload.resultId, role |-> "reader",
                                type |-> "anyone", emailAddress |-> ""])
                   /\ IF upload.op = "uploadFile"
                      THEN /\ upload' = [upload EXCEPT !.pc = "returned",
                                                       !.uploaded = TRUE,
                                                       !.returned = TRUE,
                                                       !.log = Append(@, entry)]
                           /\ UNCHANGED <<files, client>>
                      ELSE /\ upload' = [upload EXCEPT !.pc = "getFolderIdByPath",
                                                       !.uploaded = TRUE,
                                                       !.log = Append(@, entry)]
                           /\ GetFolderIdByPath(1, upload.driveFolder)
  /\ UNCHANGED <<uvars, cvars, svars, repeats>>

\* uploadFileAndShare leaving an omitted role to shareFolderWithEmail, whose
\* default is 'writer'.
UploadShareFolderDefaultWriter ==
  /\ upload.pc = "shareFolderWithEmail.permissions.create"
  /\ \E outcome \in {"ok", "error"} :
       LET role == IF upload.role = "undefined" THEN "writer" ELSE upload.role
           entry == PermissionCall(upload.shareFolderId, role, "user",
                                   upload.shareWithEmail, outcome)
       IN  /\ outcome = "ok" =>
                upload.shareFolderId \in {ROOT} \cup 1..Len(files)
           /\ IF outcome = "error"
              THEN /\ upload' = [upload EXCEPT !.pc = "threw",
                                               !.error = "RemoteCallFailure",
                                               !.log = Append(@, entry)]
                   /\ UNCHANGED permissions
              ELSE /\ upload' = [upload EXCEPT !.pc = "returned",
                                               !.returned = TRUE,
                                               !.log = Append(@, entry)]
                   /\ permissions' =
                        Append(permissions,
                               [fileId |-> upload.shareFolderId, role |-> role,
                                type |-> "user",
                                emailAddress |-> upload.shareWithEmail])
  /\ UNCHANGED <<uvars, cvars, svars, dvars>>

\* shareFolderWithEmail({ folderId, emailAddress, role }) with the role
\* uploadFileAndShare passes ('reader' when it got none): await
\* permissions.create(requestOptions).  Then uploadFileAndShare returns.
UploadShareFolder ==
  /\ upload.pc = "shareFolderWithEmail.permissions.create"
  /\ \E outcome \in {"ok", "error"} :
       LET role == IF upload.role = "undefined" THEN "reader" ELSE upload.role
           entry == PermissionCall(upload.shareFolderId, role, "user",
                                   upload.shareWithEmail, outcome)
       IN  /\ outcome = "ok" =>
                upload.shareFolderId \in {ROOT} \cup 1..Len(files)
           /\ IF outcome = "error"
              THEN /\ upload' = [upload EXCEPT !.pc = "threw",
                                               !.error = "RemoteCallFailure",
                                               !.log = Append(@, entry)]
                   /\ UNCHANGED permissions
              ELSE /\ upload' = [upload EXCEPT !.pc = "returned",
                                               !.returned = TRUE,
                                               !.log = Append(@, entry)]
                   /\ permissions' =
                        Append(permissions,
                               [fileId |-> upload.shareFolderId, role |-> role,
                                type |-> "user",
                                emailAddress |-> upload.shareWithEmail])
  /\ UNCHANGED <<uvars, cvars, svars, dvars>>

NextUpload ==
  \/ UploadFile
  \/ UploadGetDriveClient
  \/ UploadResolveStep
  \/ UploadResolveThrew
  \/ UploadFilesCreate
  \/ UploadPermissionAuth
  \/ UploadMakeFilePublic
  \/ UploadShareFolder

SpecUpload == InitDrive /\ [][NextUpload]_vars

(***************************************************************************)
(* The operations of the Sheets client, one await at a time.               *)
(***************************************************************************)
\* The caller starts an operation on a client that did nothing yet.
CallSheet(p) ==
  /\ sheet[p].pc = "idle"
  /\ \E op \in SheetOps,
        url \in {PatternLiteral \o SpreadsheetId,
                 PatternLiteral \o <<Code.underscore, Code.dash, Code.nine>>,
                 PatternLiteral},
        sheetName \in {TabTitle, "Other"} :
       /\ sheetName = "Other" => url = PatternLiteral \o SpreadsheetId
       /\ \E args \in SheetArgs(op) :
            SheetCall(p, op, url, sheetName, args, IdleSheet.found)
  /\ UNCHANGED <<uvars, cvars, dvars, upload, permissions, spreadsheet>>

\* The caller deletes the row getIdxRow found: deleteRowSheet({ sheetUrl,
\* sheetName, row: rowIndex }) after rowIndex >= 0.
CallDeleteFound(p) ==
  /\ sheet[p].op = "getIdxRow"
  /\ sheet[p].pc = "returned"
  /\ sheet[p].result >= 0
  /\ SheetCall(p, "deleteRowSheet", sheet[p].sheetUrl, sheet[p].sheetName,
               [row |-> sheet[p].result, rowOffset |-> Undefined],
               [index |-> sheet[p].result, colName |-> sheet[p].args.colName,
                value |-> sheet[p].args.value])
  /\ UNCHANGED <<uvars, cvars, dvars, upload, permissions, spreadsheet>>

\* await this.getSheetsClient() and this.extractSheetId({ sheetUrl }), and
\* what the operation does up to its next await.  getValues and getIdxRow
\* then call getSheetInfo, which does both once more.
SheetGetSheetsClient(p) ==
  /\ sheet[p].pc = "getSheetsClient"
  /\ \E outcome \in {"ok", "error"} :
       LET c == sheet[p]
           logged == [c EXCEPT !.log = Append(@, [op |-> "auth",
                                                   request |-> <<>>,
                                                   outcome |-> outcome])]
           sheetId == getSheetIdFromUrl(c.sheetUrl)
           valid == [logged EXCEPT !.spreadsheetId = sheetId.value]
       IN  sheet' = [sheet EXCEPT ![p] =
             IF outcome = "error"
             THEN [logged EXCEPT !.pc = "threw", !.error = "RemoteCallFailure"]
             ELSE IF sheetId.isNull \/ sheetId.value = <<>>
             THEN [logged EXCEPT !.pc = "threw", !.error = "InvalidSheetUrl"]
             ELSE CASE c.op \in {"getValues", "getIdxRow"} /\ ~c.inner ->
                         [valid EXCEPT !.inner = TRUE]
                    [] c.op \in {"getValues", "getIdxRow"} /\ c.inner ->
                         [valid EXCEPT !.pc = "spreadsheets.get"]
                    [] c.op \in {"getSheetInfo", "deleteRowSheet"} ->
                         [valid EXCEPT !.pc = "spreadsheets.get"]
                    [] c.op = "export" /\ c.args.typeExport = "Overwrite" ->
                         [valid EXCEPT !.pc = "values.batchUpdate",
                                       !.request = BatchData(c, 1)]
                    [] c.op = "export" /\ c.args.typeExport = "Append" ->
                         [valid EXCEPT !.pc = "spreadsheets.get"]
                    [] c.op = "export"
                         /\ c.args.typeExport \notin {"Overwrite", "Append"} ->
                         [valid EXCEPT !.pc = "threw",
                                       !.error = "InvalidExportType"]
                    [] OTHER ->
                         [valid EXCEPT !.pc = "values.batchUpdate",
                                       !.request = BatchData(c, 0)]]
  /\ UNCHANGED <<uvars, cvars, dvars, upload, permissions, spreadsheet>>

\* deleteRowSheet testing the identifier of the tab with !sheetId.
SheetSpreadsheetsGetFalsyId(p) ==
  /\ sheet[p].pc = "spreadsheets.get"
  /\ \E outcome \in {"ok", "error"} :
       LET c == sheet[p]
           logged == [c EXCEPT !.log = Append(@, [op |-> "spreadsheets.get",
                                                   request |-> <<>>,
                                                   outcome |-> outcome])]
           sheets == [n \in 1..Len(spreadsheet) |->
                        [title |-> spreadsheet[n].title,
                         sheetId |-> spreadsheet[n].sheetId,
                         rowCount |-> Len(spreadsheet[n].rows),
                         columnCount |-> ColumnCount]]
           titled == SelectSeq(sheets, LAMBDA t : t.title = c.sheetName)
           Read(range) == [logged EXCEPT !.pc = "values.get", !.request = range]
           NotFound == [logged EXCEPT !.pc = "threw", !.error = "SheetNotFound"]
       IN  /\ outcome = "ok" => c.spreadsheetId = SpreadsheetId
           /\ sheet' = [sheet EXCEPT ![p] =
                IF outcome = "error"
                THEN [logged EXCEPT !.pc = "threw", !.error = "RemoteCallFailure"]
                ELSE CASE c.op = "getSheetInfo" ->
                            [logged EXCEPT !.pc = "returned", !.result = sheets]
                       [] c.op = "getValues" ->
                            IF titled = <<>> THEN NotFound
                            ELSE IF c.args.endRow \in {Undefined, 0}
                            THEN Read(A1Range("sheet", c.sheetName, <<>>, 0, <<>>, 0))
                            ELSE Read(A1Range("area", c.sheetName, <<Code.A>>, 1,
                                              convertIndexToColumnName(
                                                titled[1].columnCount - 1),
                                              c.args.endRow))
                       [] c.op = "getIdxRow" ->
                            IF titled = <<>> THEN NotFound
                            ELSE Read(A1Range("area", c.sheetName, c.args.colName,
                                              1, c.args.colName,
                                              titled[1].rowCount))
                       [] c.op = "export" ->
                            Read(A1Range("area", c.sheetName, <<Code.A>>, 1,
                                         <<Code.A>>,
                                         IF titled = <<>> THEN 1000
                                         ELSE titled[1].rowCount))
                       [] c.op = "deleteRowSheet" ->
                            IF titled = <<>> \/ titled[1].sheetId = 0 THEN NotFound
                            ELSE LET offset == IF c.args.rowOffset = Undefined
                                               THEN 0 ELSE c.args.rowOffset
                                     actualRowIndex == c.args.row + 1 + offset
                                 IN  [logged EXCEPT
                                        !.pc = "batchUpdate",
                                        !.request =
                                          [sheetId |-> titled[1].sheetId,
                                           startIndex |-> actualRowIndex,
                                           endIndex |-> actualRowIndex + 1]]]
  /\ UNCHANGED <<uvars, cvars, dvars, upload, permissions, spreadsheet>>

\* await sheetsInstance.spreadsheets.get(...) and the use of the metadata
\* read.  The remote has no spreadsheet but SpreadsheetId.
SheetSpreadsheetsGet(p) ==
  /\ sheet[p].pc = "spreadsheets.get"
  /\ \E outcome \in {"ok", "error"} :
       LET c == sheet[p]
           logged == [c EXCEPT !.log = Append(@, [op |-> "spreadsheets.get",
                                                   request |-> <<>>,
                                                   outcome |-> outcome])]
           sheets == [n \in 1..Len(spreadsheet) |->
                        [title |-> spreadsheet[n].title,
                         sheetId |-> spreadsheet[n].sheetId,
                         rowCount |-> Len(spreadsheet[n].rows),
                         columnCount |-> ColumnCount]]
           titled == SelectSeq(sheets, LAMBDA t : t.title = c.sheetName)
           Read(range) == [logged EXCEPT !.pc = "values.get", !.request = range]
           NotFound == [logged EXCEPT !.pc = "threw", !.error = "SheetNotFound"]
       IN  /\ outcome = "ok" => c.spreadsheetId = SpreadsheetId
           /\ sheet' = [sheet EXCEPT ![p] =
                IF outcome = "error"
                THEN [logged EXCEPT !.pc = "threw", !.error = "RemoteCallFailure"]
                ELSE CASE c.op = "getSheetInfo" ->
                            [logged EXCEPT !.pc = "returned", !.result = sheets]
                       [] c.op = "getValues" ->
                            IF titled = <<>> THEN NotFound
                            ELSE IF c.args.endRow \in {Undefined, 0}
                            THEN Read(A1Range("sheet", c.sheetName, <<>>, 0, <<>>, 0))
                            ELSE Read(A1Range("area", c.sheetName, <<Code.A>>, 1,
                                              convertIndexToColumnName(
                                                titled[1].columnCount - 1),
                                              c.args.endRow))
                       [] c.op = "getIdxRow" ->
                            IF titled = <<>> THEN NotFound
                            ELSE Read(A1Range("area", c.sheetName, c.args.colName,
                                              1, c.args.colName,
                                              titled[1].rowCount))
                       [] c.op = "export" ->
                            Read(A1Range("area", c.sheetName, <<Code.A>>, 1,
                                         <<Code.A>>,
                                         IF titled = <<>> THEN 1000
                                         ELSE titled[1].rowCount))
                       [] c.op = "deleteRowSheet" ->
                            IF titled = <<>> THEN NotFound
                            ELSE LET offset == IF c.args.rowOffset = Undefined
                                               THEN 0 ELSE c.args.rowOffset
                                     actualRowIndex == c.args.row + 1 + offset
                                 IN  [logged EXCEPT
                                        !.pc = "batchUpdate",
                                        !.request =
                                          [sheetId |-> titled[1].sheetId,
                                           startIndex |-> actualRowIndex,
                                           endIndex |-> actualRowIndex + 1]]]
  /\ UNCHANGED <<uvars, cvars, dvars, upload, permissions, spreadsheet>>

\* executeAppendExport taking every cell that is not empty for used, a
\* cell of blanks included.
LastUsedRowNoTrim(currentData) ==
  LET IsUsed(k) ==
        /\ currentData[k] # <<>>
        /\ currentData[k][1] # <<>>
  IN  IF \E k \in 1..Len(currentData) : IsUsed(k)
      THEN CHOOSE k \in 1..Len(currentData) :
             IsUsed(k) /\ \A j \in (k + 1)..Len(currentData) : ~IsUsed(j)
      ELSE 0

\* executeAppendExport: the loop from the end of currentData to the last
\* row whose first cell is there, not empty and not blank; 0 without one.
LastUsedRow(currentData) ==
  LET IsUsed(k) ==
        /\ currentData[k] # <<>>
        /\ currentData[k][1] # <<>>
        /\ trim(currentData[k][1]) # <<>>
  IN  IF \E k \in 1..Len(currentData) : IsUsed(k)
      THEN CHOOSE k \in 1..Len(currentData) :
             IsUsed(k) /\ \A j \in (k + 1)..Len(currentData) : ~IsUsed(j)
      ELSE 0

\* values.get issued once more when it fails for the first time.
SheetValuesGetRetry(p) ==
  /\ sheet[p].pc = "values.get"
  /\ \E outcome \in {"ok", "error"} :
       LET c == sheet[p]
           logged == [c EXCEPT !.log = Append(@, [op |-> "values.get",
                                                   request |-> c.request,
                                                   outcome |-> outcome])]
           tabs == SelectSeq(spreadsheet, LAMBDA t : t.title = c.request.sheetName)
           values == ValuesGet(tabs[1].rows, c.request)
           IsMatch(k) == values[k] # <<>> /\ values[k][1] = c.args.value
           IsUsed(k) ==
             /\ values[k] # <<>>
             /\ values[k][1] # <<>>
             /\ trim(values[k][1]) # <<>>
           index == IF \E k \in 1..Len(values) : IsMatch(k)
                    THEN (CHOOSE k \in 1..Len(values) :
                            IsMatch(k) /\ \A j \in 1..(k - 1) : ~IsMatch(j)) - 1
                    ELSE -1
           lastUsedRow == IF \E k \in 1..Len(values) : IsUsed(k)
                          THEN CHOOSE k \in 1..Len(values) :
                                 IsUsed(k) /\ \A j \in (k + 1)..Len(values) : ~IsUsed(j)
                          ELSE 0
           startRow == IF Len(values) > 0 THEN lastUsedRow + 1 ELSE 1
       IN  /\ outcome = "ok" =>
                /\ c.spreadsheetId = SpreadsheetId
                /\ tabs # <<>>
                /\ InGrid(c.request, tabs[1].rows)
           /\ sheet' = [sheet EXCEPT ![p] =
                IF outcome = "error"
                THEN IF Len(c.log) > 0 /\ c.log[Len(c.log)].outcome = "error"
                     THEN [logged EXCEPT !.pc = "threw",
                                         !.error = "RemoteCallFailure"]
                     ELSE logged
                ELSE CASE c.op = "getValues" ->
                            [logged EXCEPT !.pc = "returned", !.result = values]
                       [] c.op = "getIdxRow" ->
                            [logged EXCEPT !.pc = "returned", !.result = index]
                       [] c.op = "export" ->
                            [logged EXCEPT !.pc = "values.batchUpdate",
                                           !.request = BatchData(c, startRow)]]
  /\ UNCHANGED <<uvars, cvars, dvars, upload, permissions, spreadsheet>>

\* await sheetsInstance.spreadsheets.values.get({ spreadsheetId, range })
\* and the use of the values read.  The remote rejects a range that is not
\* within a tab it has.
SheetValuesGet(p) ==
  /\ sheet[p].pc = "values.get"
  /\ \E outcome \in {"ok", "error"} :
       LET c == sheet[p]
           logged == [c EXCEPT !.log = Append(@, [op |-> "values.get",
                                                   request |-> c.request,
                                                   outcome |-> outcome])]
           tabs == SelectSeq(spreadsheet, LAMBDA t : t.title = c.request.sheetName)
           values == ValuesGet(tabs[1].rows, c.request)
           IsMatch(k) == values[k] # <<>> /\ values[k][1] = c.args.value
           index == IF \E k \in 1..Len(values) : IsMatch(k)
                    THEN (CHOOSE k \in 1..Len(values) :
                            IsMatch(k) /\ \A j \in 1..(k - 1) : ~IsMatch(j)) - 1
                    ELSE -1
           startRow == IF Len(values) > 0 THEN LastUsedRow(values) + 1 ELSE 1
       IN  /\ outcome = "ok" =>
                /\ c.spreadsheetId = SpreadsheetId
                /\ tabs # <<>>
                /\ InGrid(c.request, tabs[1].rows)
           /\ sheet' = [sheet EXCEPT ![p] =
                IF outcome = "error"
                THEN [logged EXCEPT !.pc = "threw", !.error = "RemoteCallFailure"]
                ELSE CASE c.op = "getValues" ->
                            [logged EXCEPT !.pc = "returned", !.result = values]
                       [] c.op = "getIdxRow" ->
                            [logged EXCEPT !.pc = "returned", !.result = index]
                       [] c.op = "export" ->
                            [logged EXCEPT !.pc = "values.batchUpdate",
                                           !.request = BatchData(c, startRow)]]
  /\ UNCHANGED <<uvars, cvars, dvars, upload, permissions, spreadsheet>>

\* await sheetsInstance.spreadsheets.values.batchUpdate({ spreadsheetId,
\* requestBody: { valueInputOption: 'RAW', data } }); return true.  The
\* remote writes every entry of data, or none when one does not fit.
SheetValuesBatchUpdate(p) ==
  /\ sheet[p].pc = "values.batchUpdate"
  /\ \E outcome \in {"ok", "error"} :
       LET c == sheet[p]
           logged == [c EXCEPT !.log = Append(@, [op |-> "values.batchUpdate",
                                                   request |-> c.request,
                                                   outcome |-> outcome])]
           Fits(entry) ==
             /\ entry.range.sheetName = spreadsheet[1].title
             /\ ValuesFit(spreadsheet[1].rows, entry.range, entry.values)
           RECURSIVE Written(_, _)
           Written(rows, k) ==
             IF k > Len(c.request) THEN rows
             ELSE Written(ValuesUpdate(rows, c.request[k].range,
                                       c.request[k].values), k + 1)
       IN  /\ outcome = "ok" =>
                /\ c.spreadsheetId = SpreadsheetId
                /\ \A k \in 1..Len(c.request) : Fits(c.request[k])
           /\ IF outcome = "error"
              THEN /\ sheet' = [sheet EXCEPT ![p] =
                        [logged EXCEPT !.pc = "threw",
                                       !.error = "RemoteCallFailure"]]
                   /\ UNCHANGED spreadsheet
              ELSE /\ sheet' = [sheet EXCEPT ![p] =
                        [logged EXCEPT !.pc = "returned", !.result = TRUE]]
                   /\ spreadsheet' =
                        [spreadsheet EXCEPT
                           ![1].rows = Written(spreadsheet[1].rows, 1)]
  /\ UNCHANGED <<uvars, cvars, dvars, upload, permissions>>

\* The remote reading startIndex and endIndex as 1-based row numbers.
SheetBatchUpdateOneBased(p) ==
  /\ sheet[p].pc = "batchUpdate"
  /\ \E outcome \in {"ok", "error"} :
       LET c == sheet[p]
           logged == [c EXCEPT !.log = Append(@, [op |-> "batchUpdate",
                                                   request |-> c.request,
                                                   outcome |-> outcome])]
           rows == spreadsheet[1].rows
       IN  /\ outcome = "ok" =>
                /\ c.spreadsheetId = SpreadsheetId
                /\ c.request.sheetId = spreadsheet[1].sheetId
                /\ c.request.startIndex >= 0
                /\ c.request.endIndex <= Len(rows)
                /\ Len(rows) > 1
           /\ IF outcome = "error"
              THEN /\ sheet' = [sheet EXCEPT ![p] =
                        [logged EXCEPT !.pc = "threw",
                                       !.error = "RemoteCallFailure"]]
                   /\ UNCHANGED spreadsheet
              ELSE /\ sheet' = [sheet EXCEPT ![p] =
                        [logged EXCEPT !.pc = "returned", !.result = TRUE]]
                   /\ spreadsheet' =
                        [spreadsheet EXCEPT
                           ![1].rows =
                             SubSeq(rows, 1, c.request.startIndex - 1)
                               \o SubSeq(rows, c.request.endIndex, Len(rows))]
  /\ UNCHANGED <<uvars, cvars, dvars, upload, permissions>>

\* deleteRowSheet: await sheetsInstance.spreadsheets.batchUpdate with one
\* deleteDimension request; return true.  The remote removes the rows
\* startIndex (0-based) up to endIndex, exclusive, of the tab, which must
\* have them and keep a row.
SheetBatchUpdate(p) ==
  /\ sheet[p].pc = "batchUpdate"
  /\ \E outcome \in {"ok", "error"} :
       LET c == sheet[p]
           logged == [c EXCEPT !.log = Append(@, [op |-> "batchUpdate",
                                                   request |-> c.request,
                                                   outcome |-> outcome])]
           rows == spreadsheet[1].rows
       IN  /\ outcome = "ok" =>
                /\ c.spreadsheetId = SpreadsheetId
                /\ c.request.sheetId = spreadsheet[1].sheetId
                /\ c.request.startIndex >= 0
                /\ c.request.endIndex <= Len(rows)
                /\ Len(rows) > 1
           /\ IF outcome = "error"
              THEN /\ sheet' = [sheet EXCEPT ![p] =
                        [logged EXCEPT !.pc = "threw",
                                       !.error = "RemoteCallFailure"]]
                   /\ UNCHANGED spreadsheet
              ELSE /\ sheet' = [sheet EXCEPT ![p] =
                        [logged EXCEPT !.pc = "returned", !.result = TRUE]]
                   /\ spreadsheet' =
                        [spreadsheet EXCEPT
                           ![1].rows =
                             SubSeq(rows, 1, c.request.startIndex)
                               \o SubSeq(rows, c.request.endIndex + 1, Len(rows))]
  /\ UNCHANGED <<uvars, cvars, dvars, upload, permissions>>

\* Client 1 performing one operation on a spreadsheet nobody else changes,
\* and deleting the row it found when the operation was getIdxRow.
InitSheet ==
  /\ upc = "init"
  /\ columnIndex = 0
  /\ columnName = <<>>
  /\ indexResult = Returned(0)
  /\ dataRowIndex = 0
  /\ rowOffset = Undefined
  /\ actualRow = 0
  /\ InitCalls
  /\ InitOperations
  /\ spreadsheet \in {Spreadsheet(grid) : grid \in GridInputs}
  /\ files = <<>>
  /\ client = [p \in Clients |-> IdleClient]
  /\ repeats = 0

NextSheet ==
  \/ CallSheet(1)
  \/ CallDeleteFound(1)
  \/ SheetGetSheetsClient(1)
  \/ SheetSpreadsheetsGet(1)
  \/ SheetValuesGet(1)
  \/ SheetValuesBatchUpdate(1)
  \/ SheetBatchUpdate(1)

SpecSheet == InitSheet /\ [][NextSheet]_vars

\* The rows client p appends: 1 to MaxExportRows rows of one cell, "d" for
\* client 1 and "e" for client 2, under the header "h".
CallAppend(p) ==
  /\ sheet[p].pc = "idle"
  /\ \E n \in 1..MaxExportRows :
       SheetCall(p, "export", PatternLiteral \o SpreadsheetId, TabTitle,
                 [listCols |-> <<<<Code.h>>>>,
                  valsExport |-> [i \in 1..n |->
                                    <<IF p = 1 THEN <<Code.d>> ELSE <<Code.e>>>>],
                  typeExport |-> "Append"],
                 IdleSheet.found)
  /\ UNCHANGED <<uvars, cvars, dvars, upload, permissions, spreadsheet>>

\* Two callers each exporting to the same tab with ETypeExport.Append, their
\* awaits interleaved in any order.
NextAppend ==
  \E p \in Clients :
    \/ CallAppend(p)
    \/ SheetGetSheetsClient(p)
    \/ SheetSpreadsheetsGet(p)
    \/ SheetValuesGet(p)
    \/ SheetValuesBatchUpdate(p)

SpecAppend == InitSheet /\ [][NextAppend]_vars
\* Client 1 performing one operation, of the Drive client or of the Sheets
\* client.
NextOperation ==
  \/ upload.op = "none" /\ NextSheet
  \/ sheet[1].op = "none" /\ NextUpload

SpecOperation == InitDrive /\ [][NextOperation]_vars

(***************************************************************************)
(* Properties of the coordinate algebra.                                   *)
(***************************************************************************)

\* C1: round trip - for every column index i in 0..MaxColumnIndex,
\* convertColumnNameToIndex(convertIndexToColumnName(i)) returns i.
RoundTripIndex ==
  upc = "roundtrip" => indexResult = Returned(columnIndex)

\* A three-letter name ("AAA" is index 702) was converted back.
RoundTripWitness ==
  /\ upc = "roundtrip"
  /\ columnIndex = 702
  /\ columnName = <<Code.A, Code.A, Code.A>>
  /\ indexResult = Returned(702)

RECURSIVE Pow26(_)
Pow26(k) == IF k = 0 THEN 1 ELSE 26 * Pow26(k - 1)

\* Value of a letter string read as a positional numeral with the digits
\* A = 1 .. Z = 26: the sum of digit * 26^(distance from the right end).
RECURSIVE PositionalValue(_)
PositionalValue(name) ==
  IF name = <<>> THEN 0
  ELSE (Head(name) - Code.A + 1) * Pow26(Len(name) - 1)
       + PositionalValue(Tail(name))

\* C2: for every non-negative index convertIndexToColumnName returns the
\* bijective base-26 name of index + 1 (a non-empty string of digits
\* A = 1 .. Z = 26, no zero digit, whose positional value is index + 1);
\* in particular 0 -> "A", 25 -> "Z", 26 -> "AA", 701 -> "ZZ".
BijectiveColumnName ==
  upc \in {"named", "roundtrip"} =>
    /\ IsColumnLetters(columnName)
    /\ PositionalValue(columnName) = columnIndex + 1
    /\ (columnIndex = 0 => columnName = <<Code.A>>)
    /\ (columnIndex = 25 => columnName = <<Code.Z>>)
    /\ (columnIndex = 26 => columnName = <<Code.A, Code.A>>)
    /\ (columnIndex = 701 => columnName = <<Code.Z, Code.Z>>)

\* Index 701 was named "ZZ".
BijectiveWitness ==
  /\ upc = "named"
  /\ columnIndex = 701
  /\ columnName = <<Code.Z, Code.Z>>

\* The input after trimming surrounding whitespace and uppercasing.
TrimmedUpper(s) == toUpperCase(trim(s))

\* C3: convertColumnNameToIndex throws exactly when the input, trimmed and
\* uppercased, is empty or has a character outside A-Z ("1A" and "" throw);
\* otherwise it returns the index of the trimmed, uppercased input.
ColumnNameValidation ==
  upc = "parsed" =>
    LET norm == TrimmedUpper(columnName)
    IN  /\ indexResult.threw <=>
              \/ norm = <<>>
              \/ \E k \in 1..Len(norm) : norm[k] \notin (Code.A)..(Code.Z)
        /\ ~indexResult.threw =>
              /\ indexResult = convertColumnNameToIndex(norm)
              /\ indexResult.value = PositionalValue(norm) - 1
        /\ columnName = <<Code.one, Code.A>> => indexResult.threw
        /\ columnName = <<>> => indexResult.threw

\* " az" (blank, lower case) was accepted and gave the index of "AZ", 51.
ColumnNameValidationWitness ==
  /\ upc = "parsed"
  /\ columnName = <<Code.space, Code.a, Code.z>>
  /\ indexResult = Returned(51)

\* C4: calculateActualRow returns dataRowIndex + 2 + rowOffset, rowOffset
\* being 0 when omitted: (0,0) -> 2, (5,0) -> 7, (0,1) -> 3.
ActualRowArithmetic ==
  upc = "row" =>
    /\ rowOffset # Undefined => actualRow = dataRowIndex + 2 + rowOffset
    /\ rowOffset = Undefined => actualRow = dataRowIndex + 2
    /\ (dataRowIndex = 0 /\ rowOffset = 0 => actualRow = 2)
    /\ (dataRowIndex = 5 /\ rowOffset = 0 => actualRow = 7)
    /\ (dataRowIndex = 0 /\ rowOffset = 1 => actualRow = 3)

\* Data row 5 with the offset omitted is sheet row 7.
ActualRowWitness ==
  /\ upc = "row"
  /\ dataRowIndex = 5
  /\ rowOffset = Undefined
  /\ actualRow = 7


(***************************************************************************)
(* Properties of the folder-hierarchy resolver.                            *)
(***************************************************************************)

\* The lookups and creates of a log, in order (authentication left out).
IsFolderCall(entry) == entry.op \in {"list", "create"}
FolderCalls(log) == SelectSeq(log, IsFolderCall)

\* Item n of the remote is a non-trashed folder called name under parent.
IsLiveFolder(n, name, parent) ==
  /\ n \in 1..Len(files)
  /\ files[n].name = name
  /\ files[n].mimeType = FolderMime
  /\ files[n].parent = parent
  /\ ~files[n].trashed

\* The lookup of entry asked for the non-trashed folders called name under
\* parent, and what it reports is what the remote held when it was served
\* (the items 1..entry.seen).
IsLookupOf(entry, name, parent) ==
  /\ entry.op = "list"
  /\ entry.name = name
  /\ entry.parent = parent
  /\ entry.matched = Cardinality({n \in 1..entry.seen : IsLiveFolder(n, name, parent)})
  /\ entry.id # NoId => entry.id <= entry.seen /\ IsLiveFolder(entry.id, name, parent)

IsCreateOf(entry, name, parent) ==
  /\ entry.op = "create"
  /\ entry.name = name
  /\ entry.parent = parent
  /\ entry.id # NoId => entry.id = entry.seen + 1 /\ IsLiveFolder(entry.id, name, parent)

\* The calls L are the walk of createFolderHierarchy over folders from
\* segment k on with current parent parent: one lookup per segment, a
\* create exactly when the lookup gave no identifier, the identifier
\* obtained being chain[k] and the parent of segment k + 1.  pending tells
\* that a create is still to be issued after the last lookup.
RECURSIVE IsWalk(_, _, _, _, _, _)
IsWalk(L, folders, k, parent, chain, pending) ==
  IF L = <<>> THEN Len(chain) = k - 1 /\ ~pending
  ELSE
    /\ k <= Len(folders)
    /\ IsLookupOf(L[1], folders[k], parent)
    /\ IF L[1].outcome = "error"
       THEN Len(L) = 1 /\ Len(chain) = k - 1 /\ ~pending
       ELSE IF L[1].id # NoId
       THEN /\ Len(chain) >= k
            /\ chain[k] = L[1].id
            /\ IsWalk(Tail(L), folders, k + 1, L[1].id, chain, pending)
       ELSE IF Len(L) = 1
       THEN Len(chain) = k - 1 /\ pending
       ELSE /\ IsCreateOf(L[2], folders[k], parent)
            /\ IF L[2].id # NoId
               THEN /\ Len(chain) >= k
                    /\ chain[k] = L[2].id
                    /\ IsWalk(SubSeq(L, 3, Len(L)), folders, k + 1,
                              L[2].id, chain, pending)
               ELSE Len(L) = 2 /\ Len(chain) = k - 1 /\ ~pending

Count(L, op) == Cardinality({k \in 1..Len(L) : L[k].op = op})

\* C5: folder resolution walks the parsed segments in order from 'root':
\* one lookup per segment for the non-trashed folder of that name under the
\* current parent; a lookup that gives an identifier makes it the current
\* parent without a create; otherwise one create under the current parent,
\* whose identifier becomes the current parent.  The result is the current
\* parent after the last segment.
ResolutionWalk ==
  LET c == client[1]
  IN  c.calls > 0 =>
        /\ IsWalk(FolderCalls(c.log), c.folders, 1, ROOT, c.chain, c.pc = "create")
        /\ c.currentParentId = IF c.chain = <<>> THEN ROOT ELSE c.chain[Len(c.chain)]
        /\ c.pc = "returned" =>
             /\ Len(c.chain) = Len(c.folders)
             /\ Count(c.log, "list") = Len(c.folders)
             /\ c.result = c.currentParentId

\* "a/b" where folder a exists and b does not: a was adopted from its
\* lookup, b was created under it.
ResolutionWalkWitness ==
  LET c == client[1]
      L == FolderCalls(c.log)
  IN  /\ c.pc = "returned"
      /\ c.folderPath = <<Code.a, Code.slash, Code.b>>
      /\ Len(L) = 3
      /\ L[1].op = "list" /\ L[1].id = 1
      /\ L[2].op = "list" /\ L[2].id = NoId /\ L[2].parent = 1
      /\ L[3].op = "create" /\ L[3].parent = 1 /\ L[3].id = c.result

\* The path has nothing but separators and whitespace.
IsBlankPath(folderPath) ==
  \A k \in 1..Len(folderPath) : folderPath[k] \in {Code.slash} \cup WhiteSpace

\* C6: when the path parses to no segment ("", "/", only empty or blank
\* segments) getFolderIdByPath returns 'root' and issues no remote call,
\* not even the authentication.
EmptyPathIsRoot ==
  LET c == client[1]
  IN  c.calls > 0 /\ IsBlankPath(c.folderPath) =>
        /\ c.pc = "returned"
        /\ c.result = ROOT
        /\ c.log = <<>>
        /\ c.chain = <<>>

\* " / " was resolved: 'root', no call, the remote untouched.
EmptyPathWitness ==
  LET c == client[1]
  IN  /\ c.pc = "returned"
      /\ c.folderPath = <<Code.space, Code.slash, Code.space>>
      /\ c.result = ROOT
      /\ c.log = <<>>
      /\ files = <<>>

\* C7: with no other client acting, a returned resolution of n segments
\* whose first lookup matched nothing issued n lookups, each matching
\* nothing, and n creates, alternating, and returned the last-created
\* folder, each created folder lying under the one created before it, the
\* first under 'root'.
FreshPathCreatesAll ==
  LET c == client[1]
      L == FolderCalls(c.log)
      n == Len(c.folders)
  IN  (c.pc = "returned" /\ n >= 1 /\ L[1].matched = 0) =>
        /\ Len(L) = 2 * n
        /\ \A k \in 1..n :
             /\ L[2 * k - 1].op = "list"
             /\ L[2 * k - 1].matched = 0
             /\ L[2 * k - 1].name = c.folders[k]
             /\ L[2 * k].op = "create"
             /\ L[2 * k].name = c.folders[k]
             /\ L[2 * k].id = c.chain[k]
             /\ IsLiveFolder(c.chain[k], c.folders[k],
                             IF k = 1 THEN ROOT ELSE c.chain[k - 1])
        /\ c.result = L[2 * n].id

\* "a/b" on an empty root: two lookups, two creates, b (2) under a (1).
FreshPathWitness ==
  LET c == client[1]
  IN  /\ c.pc = "returned"
      /\ c.folderPath = <<Code.a, Code.slash, Code.b>>
      /\ Count(c.log, "list") = 2
      /\ Count(c.log, "create") = 2
      /\ files = <<Folder(<<Code.a>>, ROOT), Folder(<<Code.b>>, 1)>>
      /\ c.result = 2

\* C8: idempotence - the remote being changed by nobody else and answering
\* lookups with identifiers, a resolution that returns for the path of the
\* returned resolution before it gives the same identifier chain (hence
\* the same result) and issues no create.
ResolutionIdempotent ==
  LET c == client[1]
  IN  ( /\ c.pc = "returned"
        /\ c.prev.valid
        /\ c.prev.returned
        /\ c.prev.folderPath = c.folderPath
        /\ c.prev.withIds
        /\ AnsweredWithIds(c.log) ) =>
        /\ c.chain = c.prev.chain
        /\ Count(c.log, "create") = 0
        /\ c.result = IF c.chain = <<>> THEN ROOT ELSE c.prev.chain[Len(c.chain)]

\* "a/b" resolved on an empty root, then again: the second resolution
\* found both folders.
IdempotentWitness ==
  LET c == client[1]
  IN  /\ c.pc = "returned"
      /\ repeats = 1
      /\ c.prev.returned
      /\ c.folderPath = <<Code.a, Code.slash, Code.b>>
      /\ c.prev.chain = <<1, 2>>
      /\ c.chain = <<1, 2>>
      /\ Len(files) = 2
      /\ Count(c.log, "list") = 2

\* Client p's log has a create that returned an identifier for a folder
\* its lookup had not found.
CreatedAfterNotFound(p, name, parent) ==
  \E i, j \in 1..Len(client[p].log) :
    /\ i < j
    /\ client[p].log[i].op = "list"
    /\ client[p].log[i].name = name
    /\ client[p].log[i].parent = parent
    /\ client[p].log[i].id = NoId
    /\ client[p].log[j].op = "create"
    /\ client[p].log[j].name = name
    /\ client[p].log[j].parent = parent
    /\ client[p].log[j].id # NoId

\* Non-trashed folders called name under parent.
LiveFolders(name, parent) == {n \in 1..Len(files) : IsLiveFolder(n, name, parent)}

\* A client waiting to create is never held back or redirected by what the
\* remote holds by then: its step out of "create", unless the remote fails,
\* adds one more folder of that name under that parent.
CreateIsUnconditional(p) ==
  (client[p].pc = "create" /\ client'[p] # client[p]) =>
     \/ client'[p].pc = "threw" /\ client'[p].error = "RemoteCallFailure"
     \/ /\ Len(files') = Len(files) + 1
        /\ files'[Len(files')] = Folder(folderName(client[p]), client[p].currentParentId)

\* C9: get-or-create race - two concurrent resolutions of a segment that
\* does not exist can both see not-found before either creates, and both
\* then create: nothing in the client excludes it.  Whenever both clients
\* created what their lookups had not found, the parent holds two folders
\* of the name; and no step out of "create" depends on the remote's content.
RaceCreatesDuplicates ==
  /\ [](\A name \in {client[1].folders[k] : k \in 1..Len(client[1].folders)} :
        \A parent \in {ROOT} \cup 1..Len(files) :
          (CreatedAfterNotFound(1, name, parent) /\ CreatedAfterNotFound(2, name, parent))
            => Cardinality(LiveFolders(name, parent)) >= 2)
  /\ [][\A p \in Clients : CreateIsUnconditional(p)]_vars

\* Both clients resolved "a" on an empty root, both lookups were served
\* before either create (both saw 0 items), and folders 1 and 2 are both
\* called a under 'root'.
RaceWitness ==
  /\ client[1].pc = "returned"
  /\ client[2].pc = "returned"
  /\ client[1].folderPath = <<Code.a>>
  /\ client[2].folderPath = <<Code.a>>
  /\ \A p \in Clients :
       /\ FolderCalls(client[p].log)[1].seen = 0
       /\ FolderCalls(client[p].log)[1].matched = 0
  /\ client[1].result # client[2].result
  /\ files = <<Folder(<<Code.a>>, ROOT), Folder(<<Code.a>>, ROOT)>>

\* C10: when the create of a folder comes back without an identifier the
\* resolution fails with FolderCreationFailed naming that folder, and that
\* create is the last remote call of the resolution: no lookup or create
\* for a later segment.
CreateWithoutIdFails ==
  LET c == client[1]
  IN  \A k \in 1..Len(c.log) :
        (c.log[k].op = "create" /\ c.log[k].outcome = "noId") =>
          /\ k = Len(c.log)
          /\ c.pc = "threw"
          /\ c.error = "FolderCreationFailed"
          /\ c.errorFolder = c.log[k].name
          /\ c.errorFolder = c.folders[Len(c.chain) + 1]
          /\ c.result = NoId

\* "a/b": the create of a returned no identifier; nothing was issued for b.
CreateWithoutIdWitness ==
  LET c == client[1]
  IN  /\ c.pc = "threw"
      /\ c.folders = <<<<Code.a>>, <<Code.b>>>>
      /\ c.error = "FolderCreationFailed"
      /\ c.errorFolder = <<Code.a>>
      /\ Len(FolderCalls(c.log)) = 2
      /\ c.log[Len(c.log)].op = "create"

(***************************************************************************)
(* The spreadsheet identifier of a URL.                                    *)
(***************************************************************************)
\* Identifier characters: letters, digits, '-' and '_'.
IsIdentifierChar(c) ==
  c \in (Code.a..Code.z) \cup (Code.A..Code.Z) \cup (Code.zero..Code.nine)
          \cup {Code.dash, Code.underscore}

\* The positions of url where "/spreadsheets/d/" occurs followed by at
\* least one identifier character.
Occurrences(url) ==
  {i \in 1..Len(url) :
     /\ i + Len(PatternLiteral) <= Len(url)
     /\ SubSeq(url, i, i + Len(PatternLiteral) - 1) = PatternLiteral
     /\ IsIdentifierChar(url[i + Len(PatternLiteral)])}

\* run is the maximal non-empty run of identifier characters of url that
\* starts at position k.
IsMaximalRunAt(url, k, run) ==
  /\ run # <<>>
  /\ k + Len(run) - 1 <= Len(url)
  /\ run = SubSeq(url, k, k + Len(run) - 1)
  /\ \A j \in 1..Len(run) : IsIdentifierChar(run[j])
  /\ k + Len(run) <= Len(url) => ~IsIdentifierChar(url[k + Len(run)])

\* C14: getSheetIdFromUrl returns the maximal non-empty run of identifier
\* characters that follows the first occurrence of "/spreadsheets/d/"
\* followed by an identifier character, returns null exactly when there
\* is no such occurrence, and isValidSheetUrl is true exactly when
\* getSheetIdFromUrl does not return null.
SheetIdExtraction ==
  upc = "url" =>
    LET occurrences == Occurrences(sheetUrl)
    IN  /\ sheetIdResult.isNull <=> occurrences = {}
        /\ occurrences # {} =>
             LET first == CHOOSE i \in occurrences :
                            \A j \in occurrences : i <= j
             IN  IsMaximalRunAt(sheetUrl, first + Len(PatternLiteral),
                                sheetIdResult.value)
        /\ validResult <=> ~sheetIdResult.isNull

\* An identifier of several characters, '-' and '_' among them, was
\* extracted from a URL that goes on after it.
SheetIdExtractionWitness ==
  /\ upc = "url"
  /\ ~sheetIdResult.isNull
  /\ validResult
  /\ Code.underscore \in {sheetIdResult.value[k] : k \in 1..Len(sheetIdResult.value)}
  /\ Len(sheetUrl) > Len(PatternLiteral) + Len(sheetIdResult.value)

(***************************************************************************)
(* Construction of the configuration.                                      *)
(***************************************************************************)
\* A credentials record with its four required fields present and not
\* empty, and the service-account marker as its type.
IsValidRecord(credentials) ==
  /\ \A field \in {"type", "project_id", "private_key", "client_email"} :
       /\ ~credentials[field].isAbsent
       /\ credentials[field].value # ""
  /\ credentials.type.value = "service_account"

KeyFileSupplied == Truthy(configArgs.keyFilePath)
CredentialsSupplied == ~configArgs.credentials.isAbsent

\* C15 as stated: construction fails when neither form is supplied, fails
\* when both are supplied, and succeeds only when exactly one is present.
ExactlyOneCredentialForm ==
  upc = "config" =>
    /\ ~KeyFileSupplied /\ ~CredentialsSupplied => configResult.threw
    /\ KeyFileSupplied /\ CredentialsSupplied => configResult.threw
    /\ ~configResult.threw => (KeyFileSupplied <=> ~CredentialsSupplied)

\* C15, amended: construction fails when neither form is supplied; when
\* both are supplied it succeeds if the credentials record is valid, the
\* object keeps both, and getAuthOptions gives the key file alone.
AtLeastOneCredentialForm ==
  /\ upc = "config" =>
       /\ ~KeyFileSupplied /\ ~CredentialsSupplied =>
            /\ configResult.threw
            /\ configResult.error
                 = "Either keyFilePath or credentials must be provided"
       /\ ~configResult.threw => KeyFileSupplied \/ CredentialsSupplied
       /\ /\ KeyFileSupplied
          /\ CredentialsSupplied
          /\ IsValidRecord(configArgs.credentials)
          => /\ ~configResult.threw
             /\ configResult.config.keyFilePath = configArgs.keyFilePath
             /\ configResult.config.credentials = configArgs.credentials
  /\ upc = "auth" /\ KeyFileSupplied =>
       /\ authOptions.keyFile = configArgs.keyFilePath
       /\ authOptions.credentials = NoCredentials

\* An object was built from a key file path and a credentials record given
\* together, and its authentication options were taken.
BothFormsWitness ==
  /\ upc = "auth"
  /\ KeyFileSupplied
  /\ CredentialsSupplied
  /\ ~configResult.threw

\* C16: whenever a credentials record is supplied, with or without a key
\* file path, construction fails if one of type, project_id, private_key,
\* client_email is missing or empty or if type is not 'service_account',
\* and no object is produced.
CredentialsValidated ==
  upc = "config" /\ CredentialsSupplied
                 /\ ~IsValidRecord(configArgs.credentials) =>
    /\ configResult.threw
    /\ configResult.config = NoConfig
    /\ configResult.error \in {"Missing required credential field",
                               "Invalid credential type"}

\* A record of the wrong account type was rejected although a key file
\* path came with it.
CredentialsValidatedWitness ==
  /\ upc = "config"
  /\ KeyFileSupplied
  /\ CredentialsSupplied
  /\ configArgs.credentials.type.value = "user"
  /\ configArgs.credentials.project_id.value = "x"
  /\ configResult.threw
  /\ configResult.error = "Invalid credential type"

(***************************************************************************)
(* uploadFile and uploadFileAndShare.                                      *)
(***************************************************************************)
\* The operation was given a local path where no file exists.
MissingLocalFile == upload.op # "none" /\ ~upload.localFileExists

\* C17: uploadFile, called directly or by uploadFileAndShare, with a
\* local path that does not exist fails with LocalFileNotFound before any
\* remote call: its log stays empty, the resolver is never started, and
\* the remote keeps the content it had, at that moment and ever after.
LocalFileCheckedFirst ==
  /\ [](MissingLocalFile =>
          /\ upload.pc = "threw"
          /\ upload.error = "LocalFileNotFound"
          /\ upload.log = <<>>
          /\ client[1].calls = 0
          /\ client[1].log = <<>>
          /\ files = upload.before.files
          /\ permissions = upload.before.permissions)
  /\ [][MissingLocalFile => UNCHANGED <<files, client, permissions, upload>>]_vars

\* uploadFileAndShare of a missing local file into a folder path the remote
\* has no folder for.
LocalFileCheckedFirstWitness ==
  /\ MissingLocalFile
  /\ upload.op = "uploadFileAndShare"
  /\ upload.pc = "threw"
  /\ Len(parseFolderPath(upload.driveFolder)) = 2
  /\ files = <<>>

\* Positions of the log where the file was created with identifier id.
FileCreates(id) ==
  {k \in 1..Len(upload.log) :
     /\ upload.log[k].op = "upload"
     /\ upload.log[k].outcome = "ok"
     /\ upload.log[k].id = id}

\* Positions of the log where a file was made public, successfully.
MadePublic(id) ==
  {k \in 1..Len(upload.log) :
     /\ upload.log[k].op = "permission"
     /\ upload.log[k].role = "reader"
     /\ upload.log[k].type = "anyone"
     /\ upload.log[k].id = id
     /\ upload.log[k].outcome = "ok"}

\* The last remote call was a make-public request, or the authentication
\* of makeFilePublic, and it failed.
MakePublicFailed ==
  /\ upload.log # <<>>
  /\ upload.log[Len(upload.log)].outcome = "error"
  /\ \/ /\ upload.log[Len(upload.log)].op = "permission"
        /\ upload.log[Len(upload.log)].type = "anyone"
     \/ /\ upload.log[Len(upload.log)].op = "auth"
        /\ Len(upload.log) > 1
        /\ upload.log[Len(upload.log) - 1].op = "upload"

\* C18: whenever uploadFile returns a result, a permission-create with
\* role 'reader' and type 'anyone' has been issued, after the file-create
\* call, for the identifier of the file that call created, and the remote
\* holds that permission; a failure of the permission call makes
\* uploadFile fail.
AlwaysMadePublic ==
  /\ upload.uploaded =>
       /\ upload.resultId \in 1..Len(files)
       /\ files[upload.resultId]
            = Item(upload.finalFileName, OtherMime, upload.folderId, FALSE)
       /\ \E i \in FileCreates(upload.resultId), j \in MadePublic(upload.resultId) :
            i < j
       /\ \E n \in 1..Len(permissions) :
            permissions[n] = [fileId |-> upload.resultId, role |-> "reader",
                              type |-> "anyone", emailAddress |-> ""]
  /\ upload.returned => upload.uploaded
  /\ MakePublicFailed =>
       /\ upload.pc = "threw"
       /\ ~upload.uploaded
       /\ ~upload.returned

\* uploadFile returned the file it created in a folder it created.
AlwaysMadePublicWitness ==
  /\ upload.op = "uploadFile"
  /\ upload.returned
  /\ upload.folderId # ROOT
  /\ upload.before.files = <<>>

\* The remote's items and permissions as the successful create calls of
\* the log leave them, log[k] onwards, starting from fs and ps.
RECURSIVE Effects(_, _, _, _)
Effects(log, k, fs, ps) ==
  IF k > Len(log) THEN [files |-> fs, permissions |-> ps]
  ELSE LET e == log[k]
       IN  IF e.op = "create" /\ e.outcome # "error"
           THEN Effects(log, k + 1, Append(fs, Folder(e.name, e.parent)), ps)
           ELSE IF e.op = "upload" /\ e.outcome # "error"
           THEN Effects(log, k + 1,
                        Append(fs, Item(e.name, OtherMime, e.parent, FALSE)), ps)
           ELSE IF e.op = "permission" /\ e.outcome = "ok"
           THEN Effects(log, k + 1, fs,
                        Append(ps, [fileId |-> e.id, role |-> e.role,
                                    type |-> e.type,
                                    emailAddress |-> e.emailAddress]))
           ELSE Effects(log, k + 1, fs, ps)

\* C12 as stated: when an operation ends in an error, none of the remote
\* mutations it made persist.
AllOrNothing ==
  upload.pc = "threw" =>
    /\ files = upload.before.files
    /\ permissions = upload.before.permissions
    /\ ~upload.returned

\* C12, amended: when an operation ends in an error no result is
\* reported, and the remote mutations made before the failure persist:
\* the remote holds what it held at the start and every folder, file and
\* permission whose create call succeeded, and nothing is undone later.
NoResultNoRollback ==
  /\ [](upload.pc = "threw" =>
          /\ ~upload.returned
          /\ [files |-> files, permissions |-> permissions]
               = Effects(upload.log, 1, upload.before.files,
                         upload.before.permissions))
  /\ [][upload.pc = "threw" => UNCHANGED <<files, permissions>>]_vars

\* uploadFile failed at the make-public step and left the folder and the
\* file it had created.
NoRollbackWitness ==
  /\ upload.pc = "threw"
  /\ MakePublicFailed
  /\ upload.log[Len(upload.log)].op = "permission"
  /\ Len(files) = Len(upload.before.files) + 2

(***************************************************************************)
(* Failures of remote calls.                                               *)
(***************************************************************************)
\* Every failed remote call of the log is its last entry.
FailureIsLast(log) ==
  \A k \in 1..Len(log) : log[k].outcome = "error" => k = Len(log)

\* C11: no retry.  In every operation of the Drive client and of the
\* Sheets client, a remote call that fails is the last one the operation
\* issues, the operation ends with the failure, and once it has ended so
\* nothing more is sent or changed.
NoRetry ==
  /\ [](/\ FailureIsLast(client[1].log)
        /\ FailureIsLast(upload.log)
        /\ FailureIsLast(sheet[1].log)
        /\ \A k \in 1..Len(client[1].log) :
             client[1].log[k].outcome = "error" =>
               /\ client[1].pc = "threw"
               /\ client[1].error = "RemoteCallFailure"
        /\ \A k \in 1..Len(upload.log) :
             upload.log[k].outcome = "error" =>
               /\ upload.pc = "threw" \/ client[1].pc = "threw"
               /\ upload.pc = "threw" => upload.error = "RemoteCallFailure"
               /\ ~upload.returned
        /\ \A k \in 1..Len(sheet[1].log) :
             sheet[1].log[k].outcome = "error" =>
               /\ sheet[1].pc = "threw"
               /\ sheet[1].error = "RemoteCallFailure")
  /\ [][/\ client[1].pc = "threw" => UNCHANGED <<client, files, permissions>>
        /\ upload.pc = "threw" => UNCHANGED <<upload, client, files, permissions>>
        /\ sheet[1].pc = "threw" => UNCHANGED <<sheet, spreadsheet>>]_vars

\* An Append export whose read of column A failed after the metadata read
\* had succeeded.
NoRetryWitness ==
  /\ sheet[1].op = "export"
  /\ sheet[1].args.typeExport = "Append"
  /\ sheet[1].pc = "threw"
  /\ Len(sheet[1].log) = 3
  /\ sheet[1].log[3].op = "values.get"
  /\ sheet[1].log[3].outcome = "error"

(***************************************************************************)
(* The Sheets client.                                                      *)
(***************************************************************************)
\* C13 as stated: an operation called with a sheetUrl that does not match
\* the pattern fails with InvalidSheetUrl, and it has sent no request to
\* the Sheets API (building the authenticated client is the only step its
\* log may hold).
FailFastOnBadUrl ==
  sheet[1].op # "none" /\ ~isValidSheetUrl(sheet[1].sheetUrl) =>
    /\ \A k \in 1..Len(sheet[1].log) : sheet[1].log[k].op = "auth"
    /\ sheet[1].pc # "returned"
    /\ sheet[1].pc = "threw" => sheet[1].error = "InvalidSheetUrl"

\* The 1-based column a column letter names.
ColumnOf(colName) == IF colName = <<Code.A>> THEN 1 ELSE 2

\* rows without its k-th row.
WithoutRow(rows, k) == SubSeq(rows, 1, k - 1) \o SubSeq(rows, k + 1, Len(rows))

\* C19 as stated: when getIdxRow returned r >= 0 and deleteRowSheet was
\* then called with row = r, the row removed from the tab is the first row
\* whose cell in column colName holds value.
DeleteRemovesFoundRow ==
  LET c == sheet[1]
      rows == c.before[1].rows
      Holds(k) == rows[k][ColumnOf(c.found.colName)] = c.found.value
  IN  c.op = "deleteRowSheet" /\ c.found.index >= 0 /\ c.pc = "returned" =>
        \E k \in 1..Len(rows) :
          /\ Holds(k)
          /\ \A j \in 1..(k - 1) : ~Holds(j)
          /\ spreadsheet[1].rows = WithoutRow(rows, k)

\* C20 as stated: after a successful Overwrite export the tab holds the
\* header row listCols in row 1, the rows of valsExport below it, and no
\* other value.
OverwriteReplacesAll ==
  LET c == sheet[1]
      exportData == <<c.args.listCols>> \o c.args.valsExport
      rows == spreadsheet[1].rows
  IN  c.op = "export" /\ c.args.typeExport = "Overwrite" /\ c.pc = "returned" =>
        \A r \in 1..Len(rows), col \in 1..ColumnCount :
          rows[r][col] = IF r <= Len(exportData) /\ col <= Len(exportData[r])
                         THEN exportData[r][col]
                         ELSE <<>>

\* The offset an operation was called with (0 when omitted).
OffsetOf(c) == IF c.args.rowOffset = Undefined THEN 0 ELSE c.args.rowOffset

\* The (data row, column index, content) triples the per-cell update
\* operation c was given, in input order.
InputPairs(c) ==
  CASE c.op = "updateValuesMultiCells" ->
         [k \in 1..Len(c.args.cells) |->
            [row |-> c.args.cells[k].row, col |-> c.args.cells[k].col,
             content |-> c.args.cells[k].content]]
    [] c.op = "updateValuesMultiColsByRow" ->
         [k \in 1..Len(c.args.values) |->
            [row |-> c.args.row, col |-> c.args.values[k].col,
             content |-> c.args.values[k].content]]
    [] c.op = "updateValuesMultiRowsByCol" ->
         [k \in 1..Len(c.args.values) |->
            [row |-> c.args.values[k].row, col |-> c.args.col,
             content |-> c.args.values[k].content]]

\* data holds one single-cell write per input pair of c, in input order:
\* "<sheetName>!<column name of col><row + 2 + offset>" with the content.
IsPerCellData(c, data) ==
  /\ Len(data) = Len(InputPairs(c))
  /\ \A k \in 1..Len(data) :
       /\ data[k].range.kind = "cell"
       /\ data[k].range.sheetName = c.sheetName
       /\ data[k].range.startCol = convertIndexToColumnName(InputPairs(c)[k].col)
       /\ data[k].range.startRow = InputPairs(c)[k].row + 2 + OffsetOf(c)
       /\ data[k].values = <<<<InputPairs(c)[k].content>>>>

PerCellOps ==
  {"updateValuesMultiCells", "updateValuesMultiColsByRow",
   "updateValuesMultiRowsByCol"}

\* C21: per-cell range addressing.  In updateValuesMultiCells,
\* updateValuesMultiColsByRow and updateValuesMultiRowsByCol every input
\* pair (data row r, column index c) with row offset o gives one
\* single-cell write "<sheetName>!<convertIndexToColumnName(c)><r + 2 + o>"
\* with the pair's content, one per pair in input order, and all of them
\* are sent in one values.batchUpdate call, the only call to the
\* spreadsheet API the operation makes.
PerCellRangeAddressing ==
  LET c == sheet[1]
      calls == SelectSeq(c.log, LAMBDA e : e.op # "auth")
  IN  c.op \in PerCellOps =>
        /\ c.pc = "values.batchUpdate" => IsPerCellData(c, c.request)
        /\ Len(calls) <= 1
        /\ \A k \in 1..Len(calls) :
             /\ calls[k].op = "values.batchUpdate"
             /\ IsPerCellData(c, calls[k].request)
        /\ c.pc = "returned" => Len(calls) = 1

\* updateValuesMultiCells wrote two cells, B3 and then A2, in one call.
PerCellRangeAddressingWitness ==
  /\ sheet[1].op = "updateValuesMultiCells"
  /\ sheet[1].pc = "returned"
  /\ Len(sheet[1].args.cells) = 2
  /\ Len(sheet[1].log) = 2
  /\ sheet[1].log[2].request[1].range.startCol = <<Code.B>>
  /\ sheet[1].log[2].request[1].range.startRow = 3
  /\ sheet[1].log[2].request[2].range.startCol = <<Code.A>>
  /\ sheet[1].log[2].request[2].range.startRow = 2
  /\ spreadsheet[1].rows[3][2] = <<Code.d>>
  /\ spreadsheet[1].rows[2][1] = <<Code.e>>

\* C22: deleteRowSheet(row, rowOffset) asks for the rows from 0-based
\* startIndex row + 1 + rowOffset up to endIndex startIndex + 1, and when
\* it returns exactly one row was removed, the sheet row numbered
\* row + 2 + rowOffset, which is the row calculateActualRow gives the update
\* operations for the same (row, rowOffset); the header row stays.
DeleteRowArithmetic ==
  LET c == sheet[1]
      actual == c.args.row + 2 + OffsetOf(c)
      Asked(request) ==
        /\ request.startIndex = c.args.row + 1 + OffsetOf(c)
        /\ request.endIndex = request.startIndex + 1
  IN  c.op = "deleteRowSheet" =>
        /\ actual = calculateActualRow(c.args.row, c.args.rowOffset)
        /\ c.pc = "batchUpdate" => Asked(c.request)
        /\ \A k \in 1..Len(c.log) :
             c.log[k].op = "batchUpdate" => Asked(c.log[k].request)
        /\ c.pc = "returned" =>
             /\ actual <= Len(c.before[1].rows)
             /\ spreadsheet[1].rows = WithoutRow(c.before[1].rows, actual)
             /\ Len(spreadsheet[1].rows) = Len(c.before[1].rows) - 1
             /\ spreadsheet[1].rows[1] = c.before[1].rows[1]
        /\ c.pc # "returned" => spreadsheet = c.before

\* deleteRowSheet(row 0, rowOffset 1) removed sheet row 3 of a tab whose
\* rows all differ.
DeleteRowArithmeticWitness ==
  /\ sheet[1].op = "deleteRowSheet"
  /\ sheet[1].pc = "returned"
  /\ sheet[1].args = [row |-> 0, rowOffset |-> 1]
  /\ sheet[1].before[1].rows =
       <<<<<<Code.a>>, <<Code.b>>>>, <<<<Code.space>>, <<Code.a>>>>,
         <<<<>>, <<>>>>>>
  /\ spreadsheet[1].rows =
       <<<<<<Code.a>>, <<Code.b>>>>, <<<<Code.space>>, <<Code.a>>>>>>

\* The metadata of the spreadsheet holds a tab titled sheetName.
HasTab(sheetName) == \E n \in 1..Len(spreadsheet) : spreadsheet[n].title = sheetName

\* C23: SheetNotFound.  When the metadata read succeeded and the
\* spreadsheet has no tab titled sheetName, getValues, getIdxRow and
\* deleteRowSheet end with SheetNotFound right after the metadata read:
\* no values are read, no row is deleted, nothing is returned.  A tab that
\* is there is found, its sheetId being 0 included: the operation does not
\* end with SheetNotFound.
SheetNotFoundRule ==
  LET c == sheet[1]
      last == c.log[Len(c.log)]
  IN  c.op \in {"getValues", "getIdxRow", "deleteRowSheet"} =>
        /\ ~HasTab(c.sheetName) =>
             /\ \A k \in 1..Len(c.log) :
                  c.log[k].op \in {"auth", "spreadsheets.get"}
             /\ c.pc # "returned"
             /\ spreadsheet = c.before
             /\ (c.log # <<>> /\ last.op = "spreadsheets.get"
                   /\ last.outcome = "ok") =>
                  c.pc = "threw" /\ c.error = "SheetNotFound"
        /\ HasTab(c.sheetName) => c.error # "SheetNotFound"
        /\ c.error = "SheetNotFound" =>
             c.pc = "threw" /\ last.op = "spreadsheets.get" /\ last.outcome = "ok"

\* deleteRowSheet on a tab the spreadsheet does not have failed after the
\* metadata read.
SheetNotFoundRuleWitness ==
  /\ sheet[1].op = "deleteRowSheet"
  /\ sheet[1].sheetName = "Other"
  /\ sheet[1].pc = "threw"
  /\ sheet[1].error = "SheetNotFound"
  /\ Len(sheet[1].log) = 2
  /\ spreadsheet[1].sheetId = 0

(***************************************************************************)
(* Parsing of folder paths and conversion of raw values.                   *)
(***************************************************************************)
\* The pieces of path between its slashes that hold a character other than
\* white space, as pairs <<first position, last position>>.
Segments(path) ==
  {r \in (1..Len(path)) \X (1..Len(path)) :
     /\ r[1] <= r[2]
     /\ \A k \in r[1]..r[2] : path[k] # Code.slash
     /\ r[1] = 1 \/ path[r[1] - 1] = Code.slash
     /\ r[2] = Len(path) \/ path[r[2] + 1] = Code.slash
     /\ \E k \in r[1]..r[2] : path[k] \notin WhiteSpace}

\* C24: parseFolderPath returns, in their order in the path, exactly the
\* '/'-separated segments that are neither empty nor made of white space
\* only, each as it stands in the path; "", "/" and paths of slashes and
\* blanks only give no segment.
ParseFolderPathSegments ==
  LET path == callArgs.folderPath
      folders == callResult.folders
      segments == Segments(path)
      Nth(k) == CHOOSE r \in segments :
                  Cardinality({q \in segments : q[1] < r[1]}) = k - 1
  IN  upc = "parseFolderPath" =>
        /\ Len(folders) = Cardinality(segments)
        /\ \A k \in 1..Len(folders) :
             folders[k] = SubSeq(path, Nth(k)[1], Nth(k)[2])
        /\ path \in {<<>>, <<Code.slash>>} => folders = <<>>

\* "/a/ b" was parsed: the segments "a" and " b", the blank kept.
ParseFolderPathSegmentsWitness ==
  /\ upc = "parseFolderPath"
  /\ callArgs.folderPath = <<Code.slash, Code.a, Code.slash, Code.space, Code.b>>
  /\ callResult.folders = <<<<Code.a>>, <<Code.space, Code.b>>>>

\* C30: read/write row consistency.  For values read from sheet row 1
\* onward and a row offset k, convertValueSheet returns null when values is
\* empty or its row at index k is missing or empty; otherwise its i-th
\* object (i from 0) holds, under the keys of the row at index k, the cells
\* of the sheet row numbered i + 2 + k, the row calculateActualRow gives
\* the update operations and deleteRowSheet deletes for row = i and
\* rowOffset = k.
ReadWriteRowConsistency ==
  LET values == callArgs.values
      k == IF callArgs.rowOffset = Undefined THEN 0 ELSE callArgs.rowOffset
      keys == values[k + 1]
      objects == callResult.value
      Cell(row, j) == IF j <= Len(row) THEN row[j] ELSE <<>>
      BuiltFrom(object, row) ==
        /\ DOMAIN object = {keys[j] : j \in 1..Len(keys)}
        /\ \A j \in 1..Len(keys) :
             (\A m \in (j + 1)..Len(keys) : keys[m] # keys[j]) =>
               object[keys[j]] = Cell(row, j)
  IN  upc = "convertValueSheet" =>
        IF values = <<>> \/ k + 1 > Len(values) \/ keys = <<>>
        THEN callResult = Null
        ELSE /\ ~callResult.isNull
             /\ Len(objects) = Len(values) - k - 1
             /\ \A i \in 0..(Len(objects) - 1) :
                  LET sheetRow == i + 2 + k
                  IN  /\ sheetRow = calculateActualRow(i, callArgs.rowOffset)
                      /\ sheetRow <= Len(values)
                      /\ BuiltFrom(objects[i + 1], values[sheetRow])

\* With rowOffset 1 the keys are those of sheet row 2 and the one object
\* returned is built from sheet row 3.
ReadWriteRowConsistencyWitness ==
  /\ upc = "convertValueSheet"
  /\ callArgs = [values |-> <<<<<<Code.a>>>>, <<<<Code.a>>, <<Code.b>>>>,
                              <<<<Code.b>>, <<Code.a>>>>>>,
                 rowOffset |-> 1]
  /\ ~callResult.isNull
  /\ callResult.value = <<(<<Code.a>> :> <<Code.b>>) @@ (<<Code.b>> :> <<Code.a>>)>>

(***************************************************************************)
(* Creates of one resolution.                                              *)
(***************************************************************************)
\* C25: within one folder-resolution call, whatever the path (a name
\* repeated, as in "a/a", included) and the remote it starts from, and with
\* no other client acting, at most one files.create is issued for a pair
\* (parent identifier, folder name).
OneCreatePerParentAndName ==
  LET log == client[1].log
  IN  \A i \in 1..Len(log), j \in 1..Len(log) :
        (/\ i < j
         /\ log[i].op = "create"
         /\ log[j].op = "create") =>
          <<log[i].parent, log[i].name>> # <<log[j].parent, log[j].name>>

\* "a/a" was resolved on an empty remote: two creates of the name "a",
\* under 'root' and under the folder just created.
OneCreatePerParentAndNameWitness ==
  LET c == client[1]
      creates == SelectSeq(c.log, LAMBDA e : e.op = "create")
  IN  /\ c.pc = "returned"
      /\ c.folderPath = <<Code.a, Code.slash, Code.a>>
      /\ Len(creates) = 2
      /\ creates[1].parent = ROOT /\ creates[1].name = <<Code.a>>
      /\ creates[2].parent = 1 /\ creates[2].name = <<Code.a>>

(***************************************************************************)
(* Ranges of the matrix update and of the Append export.                   *)
(***************************************************************************)
\* C26 as stated: updateValuesMultiRowsMultiCols writes one area range
\* whose top-left cell is (convertIndexToColumnName(startCol),
\* startRow + 2 + rowOffset) and which spans values.length rows and
\* values[0].length columns, whatever startRow, endRow, startCol and
\* rowOffset it was called with.
MatrixRangeExtent ==
  LET c == sheet[1]
      a == c.args
      startCol == IF a.startCol = Undefined THEN 0 ELSE a.startCol
      startRow == IF a.startRow = Undefined THEN 0 ELSE a.startRow
      IsMatrixData(data) ==
        /\ Len(data) = 1
        /\ data[1].values = a.values
        /\ data[1].range.kind = "area"
        /\ data[1].range.sheetName = c.sheetName
        /\ data[1].range.startCol = convertIndexToColumnName(startCol)
        /\ data[1].range.startRow = startRow + 2 + OffsetOf(c)
        /\ data[1].range.endCol =
             convertIndexToColumnName(startCol + Len(a.values[1]) - 1)
        /\ data[1].range.endRow - data[1].range.startRow + 1 = Len(a.values)
  IN  c.op = "updateValuesMultiRowsMultiCols" =>
        /\ c.pc = "values.batchUpdate" => IsMatrixData(c.request)
        /\ \A k \in 1..Len(c.log) :
             c.log[k].op = "values.batchUpdate" => IsMatrixData(c.log[k].request)

\* The 1-based number of the last row of rows whose cell in column A is not
\* blank after trimming; 0 without one.
LastDataRow(rows) ==
  LET Used == {r \in 1..Len(rows) : trim(rows[r][1]) # <<>>}
  IN  IF Used = {} THEN 0 ELSE CHOOSE r \in Used : \A q \in Used : q <= r

ReadNotWritten(p) ==
  /\ sheet[p].op = "export"
  /\ sheet[p].pc = "values.batchUpdate"

\* The row at which the write of client p's export starts, or started.
StartRowOf(p) ==
  IF sheet[p].pc = "values.batchUpdate"
  THEN sheet[p].request[1].range.startRow
  ELSE sheet[p].log[Len(sheet[p].log)].request[1].range.startRow

\* The tab holds all the rows client p exported.
HoldsRowsOf(p, rows) ==
  Cardinality({r \in 1..Len(rows) : rows[r][1] = sheet[p].args.valsExport[1][1]})
    >= Len(sheet[p].args.valsExport)

\* Client p's values.batchUpdate succeeds in this step.
WriteReturns(p) ==
  /\ sheet[p].pc = "values.batchUpdate"
  /\ sheet'[p].pc = "returned"

\* C28: Append exports are not coordinated.  Two exports that have both
\* read the tab before either wrote have computed the same start row; the
\* write of each puts its rows at its start row whatever the tab holds
\* there by then, so when the other export has returned from writing at
\* the same start row, its rows are overwritten: once both have returned
\* after that the tab does not hold the rows of both.
UncoordinatedAppends ==
  /\ [](/\ ReadNotWritten(1) /\ ReadNotWritten(2) => StartRowOf(1) = StartRowOf(2)
        /\ (/\ sheet[1].pc = "returned"
            /\ sheet[2].pc = "returned"
            /\ StartRowOf(1) = StartRowOf(2)) =>
             ~(HoldsRowsOf(1, spreadsheet[1].rows)
                 /\ HoldsRowsOf(2, spreadsheet[1].rows)))
  /\ [][\A p \in Clients :
          WriteReturns(p) =>
            LET data == sheet[p].request[1]
                q == 3 - p
            IN  /\ \A r \in 1..Len(data.values) :
                     spreadsheet'[1].rows[data.range.startRow + r - 1][1]
                       = data.values[r][1]
                /\ (sheet[q].pc = "returned"
                      /\ StartRowOf(q) = data.range.startRow) =>
                     ~HoldsRowsOf(q, spreadsheet'[1].rows)]_vars

\* On a blank tab both exports read before either wrote, both wrote the
\* header and one row from row 1 on and returned true: the tab holds the
\* row of client 2 only.
UncoordinatedAppendsWitness ==
  /\ sheet[1].pc = "returned" /\ sheet[1].result = TRUE
  /\ sheet[2].pc = "returned" /\ sheet[2].result = TRUE
  /\ StartRowOf(1) = 1 /\ StartRowOf(2) = 1
  /\ Len(sheet[1].args.valsExport) = 1
  /\ Len(sheet[2].args.valsExport) = 1
  /\ spreadsheet[1].rows[1][1] = <<Code.h>>
  /\ spreadsheet[1].rows[2][1] = <<Code.e>>
  /\ ~HoldsRowsOf(1, spreadsheet[1].rows)

(***************************************************************************)
(* The share step of uploadFileAndShare.                                   *)
(***************************************************************************)
\* The second resolution of uploadFileAndShare has returned.
SecondResolutionReturned ==
  /\ upload.op = "uploadFileAndShare"
  /\ upload.uploaded
  /\ client[1].calls = 2
  /\ client[1].pc = "returned"

\* The positions of the log at which a permission of the type was created.
PermissionsCreated(type) ==
  {k \in 1..Len(upload.log) :
     /\ upload.log[k].op = "permission"
     /\ upload.log[k].type = type
     /\ upload.log[k].outcome = "ok"}

\* C29: in uploadFileAndShare, nobody else changing the remote and the
\* remote answering lookups with identifiers, the resolution of driveFolder
\* after the upload returns the identifier that was made the parent of the
\* uploaded file and creates no folder; the permission for shareWithEmail
\* (type user, the role given, 'reader' when none was) is asked for on that
\* identifier, and only after the file was created and made public.
ShareAfterUploadOnSameFolder ==
  LET c == client[1]
      role == IF upload.role = "undefined" THEN "reader" ELSE upload.role
  IN  upload.op = "uploadFileAndShare" =>
        /\ (SecondResolutionReturned /\ c.prev.withIds /\ AnsweredWithIds(c.log)) =>
             /\ c.result = upload.folderId
             /\ files[upload.resultId].parent = c.result
             /\ Count(c.log, "create") = 0
        /\ \A k \in 1..Len(upload.log) :
             (upload.log[k].op = "permission" /\ upload.log[k].type = "user") =>
               /\ SecondResolutionReturned
               /\ upload.log[k].id = c.result
               /\ upload.log[k].role = role
               /\ upload.log[k].emailAddress = upload.shareWithEmail
               /\ \E u \in 1..(k - 1) :
                    /\ upload.log[u].op = "upload"
                    /\ upload.log[u].outcome = "ok"
                    /\ \E m \in PermissionsCreated("anyone") :
                         /\ u < m /\ m < k
                         /\ upload.log[m].id = upload.log[u].id
        /\ \A n \in 1..Len(permissions) :
             permissions[n].type = "user" =>
               /\ permissions[n] = [fileId |-> c.result, role |-> role,
                                    type |-> "user",
                                    emailAddress |-> upload.shareWithEmail]
               /\ n = Len(permissions)
               /\ PermissionsCreated("anyone") # {}

\* uploadFileAndShare into "a/b" on an empty remote, no role given: the
\* folders 1 and 2 and the file 3 were created, the second resolution found
\* folder 2 again, and the reader permission for the user is on folder 2.
ShareAfterUploadWitness ==
  /\ upload.op = "uploadFileAndShare"
  /\ upload.returned
  /\ upload.role = "undefined"
  /\ upload.driveFolder = <<Code.a, Code.slash, Code.b>>
  /\ Len(files) = 3
  /\ upload.folderId = 2
  /\ client[1].result = 2
  /\ Count(client[1].log, "create") = 0
  /\ Len(permissions) = 2
  /\ permissions[2].fileId = 2
  /\ permissions[2].role = "reader"
  /\ permissions[2].type = "user"

=============================================================================
